---- MODULE Spec2Model ----
(***************************************************************************)
(* Model of the AI-response handling of the career-tracking application    *)
(* (src/app/app.py, src/api/index.py).                                      *)
(*                                                                         *)
(* Text is modelled as a sequence of lexical tokens: each token stands for *)
(* a run of characters that the code's regular expressions, str.find and   *)
(* json.loads treat as a unit (a bracket, a quote, one whitespace          *)
(* character, one digit, a triple-backtick fence, a word).  A JSON string  *)
(* is a quote token, any tokens but a quote, and a quote token, so that     *)
(* brackets, fences and key-like text may occur inside string values.      *)
(***************************************************************************)
EXTENDS Integers, Sequences, FiniteSets, TLC

\* ------------------------------------------------------------------------
\* Tokens
\* ------------------------------------------------------------------------
LB == "["
RB == "]"
LC == "{"
RC == "}"
COMMA == ","
COLON == ":"
Q == "Q"
SP == "_"
NL == "NL"
FENCE == "FENCE"
JSONTAG == "json"
NULLTOK == "null"

Digits == {"0", "1", "2", "3", "4", "5", "6", "7", "8", "9"}
WhiteSpace == {SP, NL}

IsWS(t) == t \in WhiteSpace
IsDigit(t) == t \in Digits

\* ------------------------------------------------------------------------
\* Sequence helpers (Python str operations on token sequences)
\* ------------------------------------------------------------------------
\* s[a:b] of Python with 0-based a and exclusive b, given here 1-based
\* inclusive: Slice(s, a, b) is empty when b < a.
Slice(s, a, b) == IF b < a THEN << >> ELSE SubSeq(s, a, b)

\* str.find: 1-based index of the first occurrence of tok, 0 when absent
\* (Python returns -1 when absent).
Find(s, tok) ==
    IF \E i \in 1..Len(s) : s[i] = tok
    THEN CHOOSE i \in 1..Len(s) : s[i] = tok /\ \A j \in 1..(i-1) : s[j] # tok
    ELSE 0

\* a variant of RFind that stops at the first occurrence of the token
RFindFirst(s, tok) == Find(s, tok)

\* str.rfind: 1-based index of the last occurrence of tok, 0 when absent.
RFind(s, tok) ==
    IF \E i \in 1..Len(s) : s[i] = tok
    THEN CHOOSE i \in 1..Len(s) : s[i] = tok /\ \A j \in (i+1)..Len(s) : s[j] # tok
    ELSE 0

\* Number of whitespace tokens of s starting at position i (regex \s*).
RECURSIVE WsRun(_, _)
WsRun(s, i) == IF i <= Len(s) /\ IsWS(s[i]) THEN 1 + WsRun(s, i + 1) ELSE 0

\* str.strip()
LStrip(s) == SubSeq(s, 1 + WsRun(s, 1), Len(s))
RStrip(s) ==
    IF \E i \in 1..Len(s) : ~IsWS(s[i])
    THEN SubSeq(s, 1, CHOOSE i \in 1..Len(s) : ~IsWS(s[i]) /\ \A j \in (i + 1)..Len(s) : IsWS(s[j]))
    ELSE << >>
Strip(s) == RStrip(LStrip(s))

\* position of the first fence token at or after i, 0 when there is none
NextFence(s, i) ==
    IF \E j \in i..Len(s) : s[j] = FENCE
    THEN CHOOSE j \in i..Len(s) : s[j] = FENCE /\ \A m \in i..(j - 1) : s[m] # FENCE
    ELSE 0

\* first position of the whitespace run that ends right before position j
\* and does not reach below i (j itself when s[j - 1] is no whitespace)
WsRunStart(s, i, j) ==
    CHOOSE m \in i..j : (\A x \in m..(j - 1) : IsWS(s[x]))
                        /\ \A y \in i..(m - 1) : ~(\A x \in y..(j - 1) : IsWS(s[x]))

\* re.sub(FENCE json \s* | \s* FENCE, '', s): the pattern is a fence with
\* the tag json and the whitespace behind it, or else a fence with the
\* whitespace before it.  The scan goes left to right from position i and
\* removes every match: up to the next fence no match can start but at the
\* whitespace run that ends at the fence (second alternative); when there is
\* no such run the scan reaches the fence itself, where the first
\* alternative is tried before the second.
RECURSIVE ReSubFenceFrom(_, _)
ReSubFenceFrom(s, i) ==
    LET j == NextFence(s, i) IN
    IF i > Len(s) THEN << >>
    ELSE IF j = 0 THEN SubSeq(s, i, Len(s))
    ELSE LET m == WsRunStart(s, i, j) IN
         SubSeq(s, i, m - 1)
         \o (IF m = j /\ j + 1 <= Len(s) /\ s[j + 1] = JSONTAG
             THEN ReSubFenceFrom(s, j + 2 + WsRun(s, j + 2))
             ELSE ReSubFenceFrom(s, j + 1))

ReSubFence(s) == ReSubFenceFrom(s, 1)

\* clean_text = re.sub(..., '', response_text).strip()
Clean(raw) == Strip(ReSubFence(raw))

\* ------------------------------------------------------------------------
\* Python values produced by json.loads
\* ------------------------------------------------------------------------
\* Every value is a record of the same five fields, so that any two values
\* can be compared: t is the Python type, s the tokens of a string, n the
\* number of an int (the truth value of a bool, the day of a datetime), k
\* the keys of a dict (in insertion order) and c the elements of a list or
\* the values of a dict.
PyNone == [t |-> "none", s |-> << >>, n |-> 0, k |-> << >>, c |-> << >>]
PyStr(toks) == [t |-> "str", s |-> toks, n |-> 0, k |-> << >>, c |-> << >>]
PyInt(num) == [t |-> "int", s |-> << >>, n |-> num, k |-> << >>, c |-> << >>]
PyBool(b) == [t |-> "bool", s |-> << >>, n |-> IF b THEN 1 ELSE 0, k |-> << >>, c |-> << >>]
PyDate(day) == [t |-> "datetime", s |-> << >>, n |-> day, k |-> << >>, c |-> << >>]
PyList(elems) == [t |-> "list", s |-> << >>, n |-> 0, k |-> << >>, c |-> elems]
PyDict(keys, vals) == [t |-> "dict", s |-> << >>, n |-> 0, k |-> keys, c |-> vals]

IsDict(v) == v.t = "dict"
IsList(v) == v.t = "list"

\* key in d
HasKey(d, key) == \E i \in 1..Len(d.k) : d.k[i] = key

\* d[key] for a key that is present
Item(d, key) == d.c[CHOOSE i \in 1..Len(d.k) : d.k[i] = key]

\* d.get(key, default)
Get(d, key, default) == IF HasKey(d, key) THEN Item(d, key) ELSE default

\* d[key] = v: a present key keeps its position, a new key is appended
SetItem(d, key, v) ==
    IF HasKey(d, key)
    THEN PyDict(d.k, [i \in 1..Len(d.c) |-> IF d.k[i] = key THEN v ELSE d.c[i]])
    ELSE PyDict(Append(d.k, key), Append(d.c, v))

\* the value of an integer literal
DigitVal(t) ==
    CASE t = "0" -> 0 [] t = "1" -> 1 [] t = "2" -> 2 [] t = "3" -> 3 [] t = "4" -> 4
      [] t = "5" -> 5 [] t = "6" -> 6 [] t = "7" -> 7 [] t = "8" -> 8 [] OTHER -> 9
RECURSIVE IntVal(_)
IntVal(digs) == IF digs = << >> THEN 0
                ELSE 10 * IntVal(SubSeq(digs, 1, Len(digs) - 1)) + DigitVal(digs[Len(digs)])

\* bool(v): None, empty containers, the empty string and 0 are false
Truthy(v) ==
    CASE v.t = "none" -> FALSE
      [] v.t = "str"  -> v.s # << >>
      [] v.t = "int"  -> v.n # 0
      [] v.t = "bool" -> v.n # 0
      [] v.t = "list" -> v.c # << >>
      [] v.t = "dict" -> v.k # << >>
      [] OTHER -> TRUE

\* ------------------------------------------------------------------------
\* json.loads
\* ------------------------------------------------------------------------
\* A parse step returns [ok, v, n]: whether a value was read, the value and
\* the position after it.
ParseFail == [ok |-> FALSE, v |-> PyNone, n |-> 0]
ParseOk(v, n) == [ok |-> TRUE, v |-> v, n |-> n]

\* position after the whitespace that starts at i
SkipWs(s, i) == i + WsRun(s, i)

\* number of digit tokens of s starting at i
RECURSIVE DigitRun(_, _)
DigitRun(s, i) == IF i <= Len(s) /\ IsDigit(s[i]) THEN 1 + DigitRun(s, i + 1) ELSE 0

\* position of the first quote token at or after i, 0 when there is none
RECURSIVE NextQuote(_, _)
NextQuote(s, i) == IF i > Len(s) THEN 0
                   ELSE IF s[i] = Q THEN i ELSE NextQuote(s, i + 1)

RECURSIVE ParseValue(_, _)
RECURSIVE ParseElems(_, _, _)
RECURSIVE ParseMembers(_, _, _)

\* the string whose opening quote is at position i and whose closing quote
\* is at j (0 when there is none): it may not hold a raw newline (a control
\* character)
StringTo(s, i, j) ==
    IF j = 0 \/ \E m \in (i + 1)..(j - 1) : s[m] = NL
    THEN ParseFail
    ELSE ParseOk(PyStr(SubSeq(s, i + 1, j - 1)), j + 1)

ParseString(s, i) == StringTo(s, i, NextQuote(s, i + 1))

\* an integer literal: a lone 0, or a run of digits that does not start
\* with 0 (after a leading 0 the scan stops, and the caller rejects the
\* digit that follows)
ParseNumber(s, i) ==
    IF s[i] = "0" THEN ParseOk(PyInt(0), i + 1)
    ELSE ParseOk(PyInt(IntVal(SubSeq(s, i, i + DigitRun(s, i) - 1))), i + DigitRun(s, i))

\* a list whose [ has been read, j the position after the whitespace
ArrayFrom(s, j) ==
    IF j <= Len(s) /\ s[j] = RB THEN ParseOk(PyList(<< >>), j + 1)
    ELSE ParseElems(s, j, << >>)

\* a dict whose { has been read, j the position after the whitespace
ObjectFrom(s, j) ==
    IF j <= Len(s) /\ s[j] = RC THEN ParseOk(PyDict(<< >>, << >>), j + 1)
    ELSE ParseMembers(s, j, PyDict(<< >>, << >>))

ParseValue(s, i) ==
    IF i > Len(s) THEN ParseFail
    ELSE IF s[i] = Q THEN ParseString(s, i)
    ELSE IF IsDigit(s[i]) THEN ParseNumber(s, i)
    ELSE IF s[i] = NULLTOK THEN ParseOk(PyNone, i + 1)
    ELSE IF s[i] = LB THEN ArrayFrom(s, SkipWs(s, i + 1))
    ELSE IF s[i] = LC THEN ObjectFrom(s, SkipWs(s, i + 1))
    ELSE ParseFail

\* behind an element and its whitespace, at j: ] ends the list, a comma
\* asks for another element
ElemsDelimiter(s, j, acc) ==
    IF j > Len(s) THEN ParseFail
    ELSE IF s[j] = RB THEN ParseOk(PyList(acc), j + 1)
    ELSE IF s[j] = COMMA THEN ParseElems(s, SkipWs(s, j + 1), acc)
    ELSE ParseFail

\* r is the parse of an element, acc the elements before it
ElemsAfter(s, r, acc) ==
    IF ~r.ok THEN ParseFail
    ELSE ElemsDelimiter(s, SkipWs(s, r.n), Append(acc, r.v))

\* the elements of a list from position i (whitespace already skipped),
\* acc holding the elements read so far
ParseElems(s, i, acc) == ElemsAfter(s, ParseValue(s, i), acc)

\* behind a member and its whitespace, at j: } ends the dict, a comma asks
\* for another member
MembersDelimiter(s, j, acc) ==
    IF j > Len(s) THEN ParseFail
    ELSE IF s[j] = RC THEN ParseOk(acc, j + 1)
    ELSE IF s[j] = COMMA THEN ParseMembers(s, SkipWs(s, j + 1), acc)
    ELSE ParseFail

\* r is the parse of the value of key; a repeated key keeps the last value
MembersAfterValue(s, key, r, acc) ==
    IF ~r.ok THEN ParseFail
    ELSE MembersDelimiter(s, SkipWs(s, r.n), SetItem(acc, key, r.v))

\* behind a key and its whitespace, at c: a colon and the value
MembersColon(s, key, c, acc) ==
    IF c > Len(s) \/ s[c] # COLON THEN ParseFail
    ELSE MembersAfterValue(s, key, ParseValue(s, SkipWs(s, c + 1)), acc)

\* k is the parse of the key string
MembersAfterKey(s, k, acc) ==
    IF ~k.ok THEN ParseFail
    ELSE MembersColon(s, k.v.s, SkipWs(s, k.n), acc)

\* the members of a dict from position i (whitespace already skipped),
\* acc holding the dict read so far
ParseMembers(s, i, acc) ==
    IF i > Len(s) \/ s[i] # Q THEN ParseFail
    ELSE MembersAfterKey(s, ParseString(s, i), acc)

\* r is the parse of the value that starts the text: only whitespace may
\* follow it
WholeText(s, r) ==
    IF r.ok /\ SkipWs(s, r.n) = Len(s) + 1 THEN [ok |-> TRUE, v |-> r.v]
    ELSE [ok |-> FALSE, v |-> PyNone]

\* json.loads(s): [ok |-> FALSE] stands for a raised JSONDecodeError
JsonLoads(s) == WholeText(s, ParseValue(s, SkipWs(s, 1)))

\* ------------------------------------------------------------------------
\* Field-level regular expressions of upload_certificate
\* ------------------------------------------------------------------------
\* whether the key pattern  "key":  starts at position i
KeyAt(s, i, key) ==
    /\ i + 3 <= Len(s)
    /\ s[i] = Q /\ s[i + 1] = key /\ s[i + 2] = Q /\ s[i + 3] = COLON

\* re.search(r'"valid":\s*(\d)', s): whether the pattern matches at i
ValidAt(s, i) ==
    /\ KeyAt(s, i, "valid")
    /\ SkipWs(s, i + 4) <= Len(s)
    /\ IsDigit(s[SkipWs(s, i + 4)])

\* [found, d]: d is group(1) of the leftmost match, a single digit
ReSearchValid(s) ==
    IF \E i \in 1..Len(s) : ValidAt(s, i)
    THEN LET i == CHOOSE i \in 1..Len(s) :
                      ValidAt(s, i) /\ \A j \in 1..(i - 1) : ~ValidAt(s, j)
         IN [found |-> TRUE, d |-> s[SkipWs(s, i + 4)]]
    ELSE [found |-> FALSE, d |-> "0"]

\* re.search(r'"skill":\s*"([^"]+)"', s): whether the pattern matches at
\* i: the key, a whitespace run, a quote, one or more tokens that are not
\* quotes, a quote
SkillAt(s, i) ==
    /\ KeyAt(s, i, "skill")
    /\ LET o == SkipWs(s, i + 4) IN
       /\ o <= Len(s) /\ s[o] = Q
       /\ NextQuote(s, o + 1) > o + 1

\* [found, g]: g is group(1) of the leftmost match
ReSearchSkill(s) ==
    IF \E i \in 1..Len(s) : SkillAt(s, i)
    THEN LET i == CHOOSE i \in 1..Len(s) :
                      SkillAt(s, i) /\ \A j \in 1..(i - 1) : ~SkillAt(s, j)
             o == SkipWs(s, i + 4)
         IN [found |-> TRUE, g |-> SubSeq(s, o + 1, NextQuote(s, o + 1) - 1)]
    ELSE [found |-> FALSE, g |-> << >>]

\* Letter case of the word tokens: the lower-case and the capitalised form
\* of a word; tokens that hold no letter are their own forms.
LowerTok(t) ==
    CASE t \in {"python", "Python", "PYTHON"} -> "python"
      [] t \in {"go", "Go"} -> "go"
      [] t = "Unknown" -> "unknown"
      [] t = "Skill" -> "skill"
      [] OTHER -> t

CapTok(t) ==
    CASE t \in {"python", "Python", "PYTHON"} -> "Python"
      [] t \in {"go", "Go"} -> "Go"
      [] t = "valid" -> "Valid"
      [] t \in {"skill", "Skill"} -> "Skill"
      [] t \in {"unknown", "Unknown"} -> "Unknown"
      [] t = "role" -> "Role"
      [] t = "score" -> "Score"
      [] t = "json" -> "Json"
      [] t = "null" -> "Null"
      [] t = "w" -> "W"
      [] OTHER -> t

IsWord(t) == CapTok(t) # t \/ LowerTok(t) # t

\* str.lower()
Lower(s) == [i \in 1..Len(s) |-> LowerTok(s[i])]

\* str.title(): a word that follows a non-letter is capitalised, a word
\* that continues a run of letters is lower-cased
Title(s) == [i \in 1..Len(s) |->
               IF i > 1 /\ IsWord(s[i - 1]) THEN LowerTok(s[i]) ELSE CapTok(s[i])]

\* ------------------------------------------------------------------------
\* ask_llama
\* ------------------------------------------------------------------------
\* The outcome of the outbound call is [kind, body]: "nokey" (API_KEY not
\* set), "ok" (status 200, body is the message content), "status" (another
\* status, body is response.text) or "exc" (requests.post or the indexing
\* of the reply raised, body is str(e)).
MSG_NO_KEY == << "API Key missing." >>
MSG_ERROR == << "Error:", SP >>
MSG_FAILED == << "Request Failed:", SP >>

ask_llama(up) ==
    CASE up.kind = "nokey"  -> MSG_NO_KEY
      [] up.kind = "ok"     -> Strip(up.body)
      [] up.kind = "status" -> MSG_ERROR \o up.body
      [] OTHER              -> MSG_FAILED \o up.body

\* ------------------------------------------------------------------------
\* State
\* ------------------------------------------------------------------------
VARIABLES
    student,         \* the student document: a dict of the persisted fields
    session,         \* the Flask session of the browser that makes the request
    skills,          \* the student's skill entries, in insertion order
    has_resume,      \* whether the resume subcollection holds a record
    today,           \* the current UTC day
    resp,            \* the last response: route, status, outbound calls, view
    other_session,   \* the Flask session of the student's other browser
    reader_instance, \* the global of get_reader: 0 is None, n the n-th Reader
    constructed,     \* how many times easyocr.Reader has been constructed
    pc,              \* where each thread stands in get_reader
    made,            \* the Reader each thread has constructed and not yet stored
    got,             \* the Reader that get_reader returned to each thread
    project,         \* a repository: its description and its languages
    classified,      \* what classify_project returned for them
    pending          \* what each thread's request has read and not yet saved

vars == << student, session, skills, has_resume, today, resp, other_session,
          reader_instance, constructed, pc, made, got, project, classified,
          pending >>

\* the state of get_reader and of classify_project
readerVars == << reader_instance, constructed, pc, made, got >>
classifyVars == << project, classified >>

\* the threads of the process that serve requests
NumThreads == 3
Threads == 1..NumThreads

\* the threads that serve requests of the student at the same time
NumWorkers == 2
Workers == 1..NumWorkers

\* what a thread holds between the read and the save of its request:
\* the handler, whether it found the profile underived, the answer about
\* the certificate, the skill extracted from it, the entry that the query
\* returned (0 is None) and whether that entry was verified
NoRequest ==
    [op |-> "none", derive |-> FALSE, response_text |-> << >>, skill_name |-> << >>,
     existing |-> 0, verified |-> FALSE]

\* a one-token string, used for keys and for short texts
K(name) == << name >>
S(name) == PyStr(<< name >>)

\* dict.update(upd)
RECURSIVE DictUpdateFrom(_, _, _)
DictUpdateFrom(d, upd, i) ==
    IF i > Len(upd.k) THEN d
    ELSE DictUpdateFrom(SetItem(d, upd.k[i], upd.c[i]), upd, i + 1)
DictUpdate(d, upd) == DictUpdateFrom(d, upd, 1)

\* dict.pop(key, None): the dict without the key
Pop(d, key) ==
    LET keep == SelectSeq([i \in 1..Len(d.k) |-> i], LAMBDA i : d.k[i] # key) IN
    PyDict([j \in 1..Len(keep) |-> d.k[keep[j]]], [j \in 1..Len(keep) |-> d.c[keep[j]]])

\* student.<field>: None when the document has no such field
Field(name) == Get(student, K(name), PyNone)

\* session.get(name)
SessionGet(name) == Get(session, K(name), PyNone)

\* 'user_id' in session, and Student.get_by_id finds the document
LoggedIn == HasKey(session, K("user_id"))

\* a response: status "200" (rendered or JSON), "302" (redirect), "400", or
\* "500" (an exception left the route handler); calls is the sequence of
\* texts that ask_llama returned while the request was handled; view holds
\* the values handed to the template or to jsonify
\* a handler that makes every outbound call a second time
ResponseCallingTwice(route, status, calls, view) ==
    [route |-> route, status |-> status, calls |-> calls \o calls, view |-> view]

Response(route, status, calls, view) ==
    [route |-> route, status |-> status, calls |-> calls, view |-> view]

NoView == PyDict(<< >>, << >>)

\* ------------------------------------------------------------------------
\* upload_resume
\* ------------------------------------------------------------------------
FALLBACK_ROLES ==
    PyList(<< PyDict(<< K("role"), K("score") >>, << PyStr(<< "SDE", SP, "(Fallback)" >>), PyInt(0) >>),
              PyDict(<< K("role"), K("score") >>, << PyStr(<< "Full", SP, "Stack", SP, "(Fallback)" >>), PyInt(0) >>),
              PyDict(<< K("role"), K("score") >>, << PyStr(<< "AI/ML", SP, "(Fallback)" >>), PyInt(0) >>) >>)

\* the try block that fills top_roles_data: the text between the first [
\* and the last ] of the cleaned response is parsed; the empty list is left
\* when a bracket is missing or json.loads raises
ParseRoles(response_text) ==
    LET clean_text == Clean(response_text)
        start == Find(clean_text, LB)
        end == RFind(clean_text, RB)
    IN IF start # 0 /\ end # 0
       THEN LET r == JsonLoads(Slice(clean_text, start, end)) IN
            IF r.ok THEN r.v ELSE PyList(<< >>)
       ELSE PyList(<< >>)

\* "Fallback if empty"
RolesOrFallback(top_roles_data) ==
    IF ~Truthy(top_roles_data) THEN FALLBACK_ROLES ELSE top_roles_data

\* top_roles_data[0]['role'] evaluates without raising
FirstRoleReadable(top_roles_data) ==
    /\ IsList(top_roles_data) /\ top_roles_data.c # << >>
    /\ IsDict(top_roles_data.c[1]) /\ HasKey(top_roles_data.c[1], K("role"))

\* the roadmap block: [found, v]; found is false when a bracket is missing
\* or json.loads raises, and 'roadmap' is then not put into updates
ParseRoadmap(roadmap_response) ==
    LET clean_rmap == Clean(roadmap_response)
        idx_start == Find(clean_rmap, LB)
        idx_end == RFind(clean_rmap, RB)
    IN IF idx_start # 0 /\ idx_end # 0
       THEN LET r == JsonLoads(Slice(clean_rmap, idx_start, idx_end)) IN
            [found |-> r.ok, v |-> r.v]
       ELSE [found |-> FALSE, v |-> PyNone]

\* updates that leave the stored market analysis in place
ResumeUpdatesRolesOnly(top_roles_data) == PyDict(<< K("top_roles") >>, << top_roles_data >>)

\* updates['top_roles'] = top_roles_data; updates['market_analysis'] = None
ResumeUpdates(top_roles_data) ==
    PyDict(<< K("top_roles"), K("market_analysis") >>, << top_roles_data, PyNone >>)

\* POST /upload_resume: hasFile is whether a named file was posted, ocrOk
\* whether get_reader and readtext returned, up1 and up2 the outcomes of
\* the two outbound calls
upload_resume(hasFile, ocrOk, up1, up2) ==
    LET response_text == ask_llama(up1)
        top_roles_data == RolesOrFallback(ParseRoles(response_text))
        roadmap_response == ask_llama(up2)
        rmap == ParseRoadmap(roadmap_response)
        base == ResumeUpdates(top_roles_data)
        updates == IF FirstRoleReadable(top_roles_data) /\ rmap.found
                   THEN SetItem(base, K("roadmap"), rmap.v)
                   ELSE base
    IN
    IF ~hasFile \/ ~ocrOk
    THEN /\ resp' = Response("upload_resume", "302", << >>, NoView)
         /\ UNCHANGED << student, session, skills, has_resume, today >>
    ELSE IF ~LoggedIn
    THEN /\ resp' = Response("upload_resume", "302", << response_text >>, NoView)
         /\ UNCHANGED << student, session, skills, has_resume, today >>
    ELSE /\ student' = DictUpdate(student, updates)
         /\ has_resume' = TRUE
         /\ resp' = Response("upload_resume", "302",
                             IF FirstRoleReadable(top_roles_data)
                             THEN << response_text, roadmap_response >>
                             ELSE << response_text >>,
                             NoView)
         /\ UNCHANGED << session, skills, today >>

\* ------------------------------------------------------------------------
\* market
\* ------------------------------------------------------------------------
\* the try block of market: [found, v]; found is false when a brace is
\* missing or json.loads raises
ParseMarket(response) ==
    LET clean_json == Clean(response)
        s == Find(clean_json, LC)
        e == RFind(clean_json, RC)
    IN IF s # 0 /\ e # 0
       THEN LET r == JsonLoads(Slice(clean_json, s, e)) IN
            [found |-> r.ok, v |-> r.v]
       ELSE [found |-> FALSE, v |-> PyNone]

\* a market that takes no stored analysis for one
HasAnalysisNever == FALSE

\* if student.market_analysis:
HasAnalysis == Truthy(Field("market_analysis"))

\* GET /market
market(up) ==
    LET response == ask_llama(up)
        parsed == ParseMarket(response)
    IN
    IF ~LoggedIn
    THEN /\ resp' = Response("market", "302", << >>, NoView)
         /\ UNCHANGED << student, session, skills, has_resume, today >>
    ELSE IF HasAnalysis
    THEN /\ resp' = Response("market", "200", << >>,
                             PyDict(<< K("analysis") >>, << Field("market_analysis") >>))
         /\ UNCHANGED << student, session, skills, has_resume, today >>
    ELSE IF parsed.found
    THEN /\ student' = SetItem(student, K("market_analysis"), parsed.v)
         /\ resp' = Response("market", "200", << response >>,
                             PyDict(<< K("analysis") >>, << parsed.v >>))
         /\ UNCHANGED << session, skills, has_resume, today >>
    ELSE /\ resp' = Response("market", "200", << response >>,
                             PyDict(<< K("analysis") >>, << PyNone >>))
         /\ UNCHANGED << student, session, skills, has_resume, today >>

\* ------------------------------------------------------------------------
\* dashboard
\* ------------------------------------------------------------------------
\* x.get('score', 0) evaluates for every element: each is a dict
SortKeysReadable(l) == \A i \in 1..Len(l.c) : IsDict(l.c[i])

ScoreKey(x) == Get(x, K("score"), PyInt(0))

\* the keys can be compared with one another: all are ints
SortKeysComparable(l) == \A i \in 1..Len(l.c) : ScoreKey(l.c[i]).t = "int"

\* x put into a list sorted by descending score, behind the elements whose
\* score is not smaller (the sort is stable)
RECURSIVE InsertByScore(_, _)
InsertByScore(sorted, x) ==
    IF sorted = << >> THEN << x >>
    ELSE IF ScoreKey(Head(sorted)).n >= ScoreKey(x).n
         THEN << Head(sorted) >> \o InsertByScore(Tail(sorted), x)
         ELSE << x >> \o sorted

RECURSIVE SortByScoreFrom(_, _, _)
SortByScoreFrom(elems, i, acc) ==
    IF i > Len(elems) THEN acc
    ELSE SortByScoreFrom(elems, i + 1, InsertByScore(acc, elems[i]))

\* the orders of the elements of l
ListOrders(l) ==
    { PyList([i \in 1..Len(l.c) |-> l.c[f[i]]]) :
        f \in { g \in [1..Len(l.c) -> 1..Len(l.c)] :
                  \A a, b \in 1..Len(l.c) : a # b => g[a] # g[b] } }

\* the lists that top_roles.sort(key=..., reverse=True) inside the try can
\* leave: the list as it was when it is no list or a key cannot be read
\* (the exception is caught before anything is moved); the list sorted by
\* descending score when the keys are ints; some order of its elements when
\* two keys cannot be compared (list.sort leaves the list partly sorted).
SortOutcomes(top_roles) ==
    IF ~IsList(top_roles) \/ ~SortKeysReadable(top_roles) \/ Len(top_roles.c) <= 1
    THEN { top_roles }
    ELSE IF SortKeysComparable(top_roles)
    THEN { PyList(SortByScoreFrom(top_roles.c, 1, << >>)) }
    ELSE ListOrders(top_roles)

\* top_roles[0] if top_roles else None, then best_role['role'] and
\* best_role['score'] if best_role: whether one of these raises
BestRoleRaises(top_roles) ==
    /\ Truthy(top_roles)
    /\ \/ ~IsList(top_roles)
       \/ /\ Truthy(top_roles.c[1])
          /\ ~(/\ IsDict(top_roles.c[1])
               /\ HasKey(top_roles.c[1], K("role"))
               /\ HasKey(top_roles.c[1], K("score")))

\* the names of the verified skills
SkillNames == { skills[i].skill_name : i \in { j \in 1..Len(skills) : skills[j].verified } }

\* last_bounty_date is a datetime of the current day
IsSolvedToday == Field("last_bounty_date").t = "datetime" /\ Field("last_bounty_date").n = today

\* the try block that parses the bounty: [found, v]
ParseBounty(bounty_resp) ==
    LET clean_bounty == Clean(bounty_resp)
        s_idx == Find(clean_bounty, LC)
        e_idx == RFind(clean_bounty, RC)
    IN IF s_idx # 0 /\ e_idx # 0
       THEN LET r == JsonLoads(Slice(clean_bounty, s_idx, e_idx)) IN
            [found |-> r.ok, v |-> r.v]
       ELSE [found |-> FALSE, v |-> PyNone]

\* the values handed to dashboard.html
DashboardView(top_roles, bounty) ==
    LET best_role == IF Truthy(top_roles) THEN top_roles.c[1] ELSE PyNone IN
    PyDict(<< K("roles"), K("best_fit"), K("best_score"), K("bounty"), K("is_solved_today") >>,
           << top_roles,
              IF Truthy(best_role) THEN Item(best_role, K("role")) ELSE S("N/A"),
              IF Truthy(best_role) THEN Item(best_role, K("score")) ELSE PyInt(0),
              bounty,
              PyBool(IsSolvedToday) >>)

\* GET /dashboard: sorted is the list the sort leaves, target_skill the
\* skill that random.choice draws, up the outcome of the outbound call
dashboard(sorted, target_skill, up) ==
    LET top_roles == IF Truthy(Field("top_roles")) THEN sorted ELSE PyList(<< >>)
        bounty_resp == ask_llama(up)
        parsed == ParseBounty(bounty_resp)
        bounty_data == SetItem(parsed.v, K("skill"), PyStr(target_skill))
        reuse == /\ Truthy(SessionGet("bounty_data"))
                 /\ SessionGet("bounty_skill").t = "str"
                 /\ SessionGet("bounty_skill").s \in SkillNames
        generate == ~IsSolvedToday /\ skills # << >> /\ ~reuse /\ SkillNames # {}
        stored == generate /\ parsed.found
        session1 == IF stored
                    THEN SetItem(SetItem(session, K("bounty_data"), bounty_data),
                                 K("bounty_skill"), PyStr(target_skill))
                    ELSE IF ~IsSolvedToday /\ skills = << >>
                    THEN Pop(session, K("bounty_data"))
                    ELSE session
        bounty == IF IsSolvedToday THEN PyNone
                  ELSE IF skills # << >> /\ reuse THEN SessionGet("bounty_data")
                  ELSE IF stored THEN bounty_data
                  ELSE PyNone
        calls == IF generate THEN << bounty_resp >> ELSE << >>
    IN
    /\ sorted \in SortOutcomes(Field("top_roles"))
    /\ target_skill \in SkillNames \/ (SkillNames = {} /\ target_skill = << >>)
    /\ IF ~LoggedIn
       THEN /\ resp' = Response("dashboard", "302", << >>, NoView)
            /\ UNCHANGED << student, session, skills, has_resume, today >>
       ELSE IF Truthy(top_roles) /\ top_roles.t \notin {"list", "str"}
       THEN /\ resp' = Response("dashboard", "500", << >>, NoView)
            /\ UNCHANGED << student, session, skills, has_resume, today >>
       ELSE /\ session' = session1
            /\ resp' = IF BestRoleRaises(top_roles)
                       THEN Response("dashboard", "500", calls, NoView)
                       ELSE Response("dashboard", "200", calls, DashboardView(top_roles, bounty))
            /\ UNCHANGED << student, skills, has_resume, today >>

\* ------------------------------------------------------------------------
\* solve_bounty
\* ------------------------------------------------------------------------
\* int(v) returns: v is an int or a bool, or a string of digits
IntConvertible(v) ==
    \/ v.t \in {"int", "bool"}
    \/ v.t = "str" /\ v.s # << >> /\ \A i \in 1..Len(v.s) : IsDigit(v.s[i])

\* int(v)
ToInt(v) == IF v.t = "str" THEN IntVal(v.s) ELSE v.n

\* POST /solve_bounty: option_index is the posted form field (None when the
\* field is missing)
solve_bounty(option_index) ==
    LET bounty_data == SessionGet("bounty_data")
        answer == IF IsDict(bounty_data) THEN Get(bounty_data, K("answer"), PyNone) ELSE PyNone
        correct == ToInt(option_index) = ToInt(answer)
        stamped == SetItem(student, K("last_bounty_date"), PyDate(today))
    IN
    IF ~LoggedIn
    THEN /\ resp' = Response("solve_bounty", "302", << >>, NoView)
         /\ UNCHANGED << student, session, skills, has_resume, today >>
    ELSE IF ~IntConvertible(option_index)
    THEN /\ resp' = Response("solve_bounty", "500", << >>, NoView)
         /\ UNCHANGED << student, session, skills, has_resume, today >>
    ELSE IF ~Truthy(bounty_data)
    THEN /\ resp' = Response("solve_bounty", "302", << >>, NoView)
         /\ UNCHANGED << student, session, skills, has_resume, today >>
    ELSE IF ~IsDict(bounty_data) \/ ~IntConvertible(answer)
            \/ (correct /\ Field("xp").t # "int")
    THEN /\ resp' = Response("solve_bounty", "500", << >>, NoView)
         /\ UNCHANGED << student, session, skills, has_resume, today >>
    ELSE /\ student' = IF correct
                       THEN SetItem(stamped, K("xp"), PyInt(Field("xp").n + 50))
                       ELSE stamped
         /\ session' = Pop(session, K("bounty_data"))
         /\ resp' = Response("solve_bounty", "302", << >>, NoView)
         /\ UNCHANGED << skills, has_resume, today >>

\* ------------------------------------------------------------------------
\* upload_certificate
\* ------------------------------------------------------------------------
UNKNOWN_SKILL == << "Unknown", SP, "Skill" >>

\* a variant of CertValid that takes the certificate for valid when the
\* pattern does not match
CertValidDefaultOne(response_text) ==
    LET match_valid == ReSearchValid(Clean(response_text)) IN
    IF match_valid.found THEN DigitVal(match_valid.d) ELSE 1

\* is_valid = int(match_valid.group(1)) if match_valid else 0
CertValid(response_text) ==
    LET match_valid == ReSearchValid(Clean(response_text)) IN
    IF match_valid.found THEN DigitVal(match_valid.d) ELSE 0

\* a variant of CertSkill whose default is cut short
CertSkillShortDefault(response_text) ==
    LET match_skill == ReSearchSkill(Clean(response_text)) IN
    IF match_skill.found THEN Title(Strip(match_skill.g)) ELSE << "Unknown" >>

\* skill_name: group(1) stripped and title-cased, or the default
CertSkill(response_text) ==
    LET match_skill == ReSearchSkill(Clean(response_text)) IN
    IF match_skill.found THEN Title(Strip(match_skill.g)) ELSE UNKNOWN_SKILL

\* the position of the first skill entry whose name equals skill_name
\* ignoring case, 0 when there is none
ExistingSkill(skill_name) ==
    IF \E i \in 1..Len(skills) : Lower(skills[i].skill_name) = Lower(skill_name)
    THEN CHOOSE i \in 1..Len(skills) :
            /\ Lower(skills[i].skill_name) = Lower(skill_name)
            /\ \A j \in 1..(i - 1) : Lower(skills[j].skill_name) # Lower(skill_name)
    ELSE 0

\* the skill entries after a valid certificate for skill_name: an entry of
\* that name is marked verified, otherwise a verified entry is added
AddSkill(skill_name) ==
    LET e == ExistingSkill(skill_name) IN
    IF e # 0
    THEN [skills EXCEPT ![e].verified = TRUE]
    ELSE Append(skills, [skill_name |-> skill_name, verified |-> TRUE])

\* the message flashed after a valid certificate
AddSkillFlash(skill_name) ==
    LET e == ExistingSkill(skill_name) IN
    IF e = 0 THEN "added and verified"
    ELSE IF skills[e].verified THEN "was already verified"
    ELSE "is now verified"

\* POST /upload_certificate
upload_certificate(hasFile, ocrOk, up) ==
    LET response_text == ask_llama(up)
        is_valid == CertValid(response_text)
        skill_name == CertSkill(response_text)
    IN
    IF ~LoggedIn \/ ~hasFile \/ ~ocrOk
    THEN /\ resp' = Response("upload_certificate", "302", << >>, NoView)
         /\ UNCHANGED << student, session, skills, has_resume, today >>
    ELSE IF is_valid = 1
    THEN /\ skills' = AddSkill(skill_name)
         /\ resp' = Response("upload_certificate", "302", << response_text >>,
                             PyDict(<< K("flash"), K("skill_name") >>,
                                    << S(AddSkillFlash(skill_name)), PyStr(skill_name) >>))
         /\ UNCHANGED << student, session, has_resume, today >>
    ELSE /\ resp' = Response("upload_certificate", "302", << response_text >>,
                             PyDict(<< K("flash") >>, << S("Could not verify certificate") >>))
         /\ UNCHANGED << student, session, skills, has_resume, today >>

\* ------------------------------------------------------------------------
\* leetcode_analysis
\* ------------------------------------------------------------------------
\* the try block: the dict that json.loads returns for the cleaned text,
\* [found |-> FALSE] when it raises or returns something else
ParseLeetcode(response_text) ==
    LET r == JsonLoads(Clean(response_text)) IN
    [found |-> r.ok /\ IsDict(r.v), v |-> r.v]

\* POST /leetcode_analysis: hasUsername is whether a username was posted,
\* statsFound whether LeetCode returned statistics for it
leetcode_analysis(hasUsername, statsFound, up) ==
    LET response_text == ask_llama(up)
        parsed == ParseLeetcode(response_text)
        stored == IF parsed.found
                  THEN PyDict(<< K("leetcode_suggestion_json"), K("leetcode_suggestion") >>,
                              << parsed.v, PyNone >>)
                  ELSE PyDict(<< K("leetcode_suggestion"), K("leetcode_suggestion_json") >>,
                              << PyStr(response_text), PyNone >>)
    IN
    IF ~LoggedIn \/ ~hasUsername \/ ~statsFound
    THEN /\ resp' = Response("leetcode_analysis", "302", << >>, NoView)
         /\ UNCHANGED << student, session, skills, has_resume, today >>
    ELSE /\ student' = SetItem(student, K("leetcode_username"), S("username"))
         /\ session' = SetItem(DictUpdate(session, stored), K("leetcode_stats"), S("stats"))
         /\ resp' = Response("leetcode_analysis", "302", << response_text >>, NoView)
         /\ UNCHANGED << skills, has_resume, today >>

\* ------------------------------------------------------------------------
\* generate_resume
\* ------------------------------------------------------------------------
\* the pathway try block: the parsed dict with the system fields added
\* (derivedAt is the ISO text of the current time);
\* [found |-> FALSE] when json.loads raises or the item assignment raises
\* because the value is no dict
ParsePathway(ai_resp) ==
    LET r == JsonLoads(Clean(ai_resp)) IN
    IF r.ok /\ IsDict(r.v)
    THEN [found |-> TRUE,
          v |-> SetItem(SetItem(SetItem(r.v, K("profileDerived"), PyBool(TRUE)),
                                K("derivedAt"), S("isoformat")),
                        K("derivationTrigger"), S("profile_creation"))]
    ELSE [found |-> FALSE, v |-> PyNone]

\* the first value of the dict that is a list, the dict when none is
FirstListValue(d) ==
    IF \E i \in 1..Len(d.c) : IsList(d.c[i])
    THEN d.c[CHOOSE i \in 1..Len(d.c) :
                 IsList(d.c[i]) /\ \A j \in 1..(i - 1) : ~IsList(d.c[j])]
    ELSE d

\* the roadmap block: [found, v]; found when the cleaned text parses to a
\* list, or to a dict one of whose values is a list
ParseResumeRoadmap(roadmap_resp) ==
    LET r == JsonLoads(Clean(roadmap_resp))
        roadmap_data == IF r.ok /\ IsDict(r.v) THEN FirstListValue(r.v) ELSE r.v
    IN [found |-> r.ok /\ IsList(roadmap_data), v |-> roadmap_data]

\* POST /generate_resume: hasSkills is whether the form carries 'skills'
\* the run-once test: a student is logged in and the document read for
\* the request does not hold a truthy profileDerived
ProfileUnderived == LoggedIn /\ ~Truthy(Field("profileDerived"))

\* the handler from the pathway prompt on, given what the test returned
generate_resume_from(derive, hasSkills, up1, up2) ==
    LET ai_resp == ask_llama(up1)
        pathway == ParsePathway(ai_resp)
        student1 == IF derive /\ pathway.found THEN DictUpdate(student, pathway.v) ELSE student
        roadmap_resp == ask_llama(up2)
        rmap == ParseResumeRoadmap(roadmap_resp)
        student2 == IF LoggedIn /\ rmap.found
                    THEN SetItem(student1, K("roadmap"), rmap.v)
                    ELSE student1
    IN
    IF ~hasSkills
    THEN /\ resp' = Response("generate_resume", "500", << >>, NoView)
         /\ UNCHANGED << student, session, skills, has_resume, today >>
    ELSE /\ student' = student2
         /\ session' = SetItem(session, K("resume_data"), S("form"))
         /\ resp' = Response("generate_resume", "200",
                             IF derive THEN << ai_resp, roadmap_resp >> ELSE << roadmap_resp >>,
                             NoView)
         /\ UNCHANGED << skills, has_resume, today >>

generate_resume(hasSkills, up1, up2) ==
    generate_resume_from(ProfileUnderived, hasSkills, up1, up2)

\* ------------------------------------------------------------------------
\* analyze_profile
\* ------------------------------------------------------------------------
\* "Fallback partial data"
ANALYSIS_FALLBACK ==
    PyDict(<< K("repo_classifications"), K("detected_domains"), K("gaps"),
              K("readiness"), K("suggestions") >>,
           << PyDict(<< >>, << >>), PyList(<< >>),
              PyList(<< PyStr(<< "Error", SP, "analyzing", SP, "profile" >>) >>),
              PyStr(<< "Analysis", SP, "Failed" >>), PyList(<< >>) >>)

\* the name of the repository that GitHub returns for the user
REPO_NAME == K("repo")

\* the domain that the heuristic gives the repository (its description and
\* languages name none of the keywords)
HEURISTIC_DOMAIN == PyStr(<< "General", SP, "Config/Other" >>)

\* the try block: the value of json.loads, or the fallback when it raises
ParseAnalysis(ai_response) ==
    LET r == JsonLoads(Clean(ai_response)) IN
    IF r.ok THEN r.v ELSE ANALYSIS_FALLBACK

\* ', '.join(secondary_domains) raises: the value is no string and holds
\* an element that is no string
JoinRaises(v) ==
    /\ Truthy(v)
    /\ \/ v.t \in {"int", "bool", "datetime"}
       \/ v.t = "list" /\ \E i \in 1..Len(v.c) : v.c[i].t # "str"

\* steps 6 of analyze_profile raises: analysis_data or its
\* repo_classifications has no get method
FormatRaises(analysis_data) ==
    \/ ~IsDict(analysis_data)
    \/ ~IsDict(Get(analysis_data, K("repo_classifications"), PyDict(<< >>, << >>)))

\* the response built from analysis_data
AnalysisResponse(analysis_data) ==
    LET classifications == Get(analysis_data, K("repo_classifications"), PyDict(<< >>, << >>))
        domain == Get(classifications, REPO_NAME, PyNone)
    IN PyDict(<< K("projects"), K("github_domains_detected"), K("missing_projects"),
                 K("ai_suggestions"), K("career_readiness") >>,
              << PyList(<< IF Truthy(domain) THEN domain ELSE HEURISTIC_DOMAIN >>),
                 Get(analysis_data, K("detected_domains"), PyList(<< >>)),
                 Get(analysis_data, K("gaps"), PyList(<< >>)),
                 Get(analysis_data, K("suggestions"), PyList(<< >>)),
                 Get(analysis_data, K("readiness"), S("Pending")) >>)

\* POST /analyze: hasUsername is whether the body names a GitHub user,
\* hasRepos whether GitHub returned repositories
analyze_profile(hasUsername, hasRepos, up) ==
    LET ai_response == ask_llama(up)
        analysis_data == ParseAnalysis(ai_response)
    IN
    IF ~LoggedIn
    THEN /\ resp' = Response("analyze_profile", "302", << >>, NoView)
         /\ UNCHANGED << student, session, skills, has_resume, today >>
    ELSE IF ~hasUsername
    THEN /\ resp' = Response("analyze_profile", "400", << >>, NoView)
         /\ UNCHANGED << student, session, skills, has_resume, today >>
    ELSE IF JoinRaises(Get(student, K("secondaryDomains"), PyList(<< >>)))
    THEN /\ resp' = Response("analyze_profile", "500", << >>, NoView)
         /\ UNCHANGED << student, session, skills, has_resume, today >>
    ELSE IF ~hasRepos
    THEN /\ resp' = Response("analyze_profile", "200", << >>,
                             PyDict(<< K("error") >>, << PyStr(<< "No", SP, "data", SP, "found" >>) >>))
         /\ UNCHANGED << student, session, skills, has_resume, today >>
    ELSE IF FormatRaises(analysis_data)
    THEN /\ resp' = Response("analyze_profile", "500", << ai_response >>, NoView)
         /\ UNCHANGED << student, session, skills, has_resume, today >>
    ELSE /\ student' = SetItem(student, K("last_github_analysis"), AnalysisResponse(analysis_data))
         /\ resp' = Response("analyze_profile", "200", << ai_response >>,
                             AnalysisResponse(analysis_data))
         /\ UNCHANGED << session, skills, has_resume, today >>

\* ------------------------------------------------------------------------
\* api_chat
\* ------------------------------------------------------------------------
\* chat_llama returns what ask_llama returns for the same outcome
chat_llama(up) ==
    CASE up.kind = "nokey"  -> MSG_NO_KEY
      [] up.kind = "ok"     -> Strip(up.body)
      [] up.kind = "status" -> MSG_ERROR \o up.body
      [] OTHER              -> MSG_FAILED \o up.body

\* step['status'] raises: the step is no dict with a status
StepRaises(step) == ~(IsDict(step) /\ HasKey(step, K("status")))

\* the step is the one that the loop stops at
FocusStep(step) == IsDict(step) /\ Get(step, K("status"), PyNone) = S("Focus")

\* the loop over student.roadmap raises: the roadmap cannot be iterated, or
\* before any 'Focus' step comes a step whose status cannot be read, or the
\* first 'Focus' step has no title or no description
RoadmapRaises(roadmap) ==
    /\ Truthy(roadmap)
    /\ \/ roadmap.t \in {"int", "bool", "datetime", "str", "dict"}
       \/ /\ IsList(roadmap)
          /\ \E i \in 1..Len(roadmap.c) :
                /\ \/ StepRaises(roadmap.c[i])
                   \/ /\ FocusStep(roadmap.c[i])
                      /\ ~(HasKey(roadmap.c[i], K("title"))
                           /\ HasKey(roadmap.c[i], K("description")))
                /\ \A j \in 1..(i - 1) : ~FocusStep(roadmap.c[j])

\* POST /api/chat: hasMessage is whether the body carries a message
api_chat(hasMessage, up) ==
    LET ai_response == chat_llama(up) IN
    IF ~LoggedIn
    THEN /\ resp' = Response("api_chat", "302", << >>, NoView)
         /\ UNCHANGED << student, session, skills, has_resume, today >>
    ELSE IF ~hasMessage
    THEN /\ resp' = Response("api_chat", "400", << >>, NoView)
         /\ UNCHANGED << student, session, skills, has_resume, today >>
    ELSE IF \/ JoinRaises(Get(student, K("secondaryDomains"), PyList(<< >>)))
            \/ RoadmapRaises(Field("roadmap"))
    THEN /\ resp' = Response("api_chat", "500", << >>, NoView)
         /\ UNCHANGED << student, session, skills, has_resume, today >>
    ELSE /\ resp' = Response("api_chat", "200", << ai_response >>,
                             PyDict(<< K("reply") >>, << PyStr(ai_response) >>))
         /\ UNCHANGED << student, session, skills, has_resume, today >>

\* ------------------------------------------------------------------------
\* classify_project
\* ------------------------------------------------------------------------
\* a string is the sequence of its characters
PROJECT_DOMAIN_RULES ==
    << [domain |-> "software",
         keywords |-> << << "p", "y", "t", "h", "o", "n" >>,
                        << "j", "a", "v", "a" >>,
                        << "j", "a", "v", "a", "s", "c", "r", "i", "p", "t" >>,
                        << "r", "e", "a", "c", "t" >>,
                        << "n", "o", "d", "e" >>,
                        << "f", "l", "a", "s", "k" >>,
                        << "d", "j", "a", "n", "g", "o" >>,
                        << "c", "+", "+" >>,
                        << "g", "o", "l", "a", "n", "g" >> >>],
       [domain |-> "data",
         keywords |-> << << "m", "a", "c", "h", "i", "n", "e", " ", "l", "e", "a", "r", "n", "i", "n", "g" >>,
                        << "m", "l" >>,
                        << "p", "a", "n", "d", "a", "s" >>,
                        << "n", "u", "m", "p", "y" >>,
                        << "p", "y", "t", "o", "r", "c", "h" >>,
                        << "t", "e", "n", "s", "o", "r", "f", "l", "o", "w" >>,
                        << "d", "a", "t", "a", " ", "a", "n", "a", "l", "y", "s", "i", "s" >> >>],
       [domain |-> "hardware",
         keywords |-> << << "a", "r", "d", "u", "i", "n", "o" >>,
                        << "e", "s", "p", "3", "2" >>,
                        << "e", "m", "b", "e", "d", "d", "e", "d" >>,
                        << "i", "o", "t" >>,
                        << "c", "i", "r", "c", "u", "i", "t" >>,
                        << "p", "c", "b" >>,
                        << "v", "e", "r", "i", "l", "o", "g" >>,
                        << "f", "p", "g", "a" >> >>],
       [domain |-> "web",
         keywords |-> << << "h", "t", "m", "l" >>,
                        << "c", "s", "s" >>,
                        << "r", "e", "a", "c", "t" >>,
                        << "f", "r", "o", "n", "t", "e", "n", "d" >>,
                        << "b", "a", "c", "k", "e", "n", "d" >>,
                        << "f", "u", "l", "l", " ", "s", "t", "a", "c", "k" >> >>],
       [domain |-> "core",
         keywords |-> << << "m", "a", "t", "l", "a", "b" >>,
                        << "a", "n", "s", "y", "s" >>,
                        << "s", "o", "l", "i", "d", "w", "o", "r", "k", "s" >>,
                        << "c", "a", "d" >>,
                        << "s", "i", "m", "u", "l", "a", "t", "i", "o", "n" >>,
                        << "t", "h", "e", "r", "m", "o", "d", "y", "n", "a", "m", "i", "c", "s" >>,
                        << "m", "e", "c", "h", "a", "n", "i", "c", "s" >> >>] >>

\* the table of k.py
PROJECT_DOMAIN_RULES_K ==
    << [domain |-> "software",
         keywords |-> << << "p", "y", "t", "h", "o", "n" >>,
                        << "j", "a", "v", "a" >>,
                        << "j", "a", "v", "a", "s", "c", "r", "i", "p", "t" >>,
                        << "r", "e", "a", "c", "t" >>,
                        << "n", "o", "d", "e" >>,
                        << "f", "l", "a", "s", "k" >>,
                        << "d", "j", "a", "n", "g", "o" >> >>],
       [domain |-> "data",
         keywords |-> << << "m", "a", "c", "h", "i", "n", "e", " ", "l", "e", "a", "r", "n", "i", "n", "g" >>,
                        << "m", "l" >>,
                        << "p", "a", "n", "d", "a", "s" >>,
                        << "n", "u", "m", "p", "y" >> >>],
       [domain |-> "hardware",
         keywords |-> << << "a", "r", "d", "u", "i", "n", "o" >>,
                        << "e", "s", "p", "3", "2" >>,
                        << "e", "m", "b", "e", "d", "d", "e", "d" >>,
                        << "i", "o", "t" >> >>],
       [domain |-> "web",
         keywords |-> << << "h", "t", "m", "l" >>,
                        << "c", "s", "s" >>,
                        << "r", "e", "a", "c", "t" >>,
                        << "f", "r", "o", "n", "t", "e", "n", "d" >>,
                        << "b", "a", "c", "k", "e", "n", "d" >> >>] >>

\* str.lower
UpperCase == << "A", "B", "C", "D", "E", "F", "G", "H", "I", "J", "K", "L", "M", "N", "O", "P", "Q", "R", "S", "T", "U", "V", "W", "X", "Y", "Z" >>
LowerCase == << "a", "b", "c", "d", "e", "f", "g", "h", "i", "j", "k", "l", "m", "n", "o", "p", "q", "r", "s", "t", "u", "v", "w", "x", "y", "z" >>
LowerChar(c) ==
    IF \E i \in 1..26 : UpperCase[i] = c
    THEN LowerCase[CHOOSE i \in 1..26 : UpperCase[i] = c]
    ELSE c
LowerStr(str) == [i \in 1..Len(str) |-> LowerChar(str[i])]

\* " ".join(languages)
RECURSIVE JoinSpace(_)
JoinSpace(languages) ==
    IF languages = << >> THEN << >>
    ELSE IF Len(languages) = 1 THEN languages[1]
    ELSE languages[1] \o << " " >> \o JoinSpace(Tail(languages))

\* kw in text
Within(kw, text) ==
    \E i \in 1..(Len(text) - Len(kw) + 1) : SubSeq(text, i, i + Len(kw) - 1) = kw

\* the score of every domain of the table, in the order of the table
Scores(rules, text) ==
    [d \in 1..Len(rules) |->
        Cardinality({ n \in 1..Len(rules[d].keywords) : Within(rules[d].keywords[n], text) })]

\* max that keeps the last of the greatest scores
RECURSIVE PyMaxLast(_, _, _)
PyMaxLast(scores, i, best) ==
    IF i > Len(scores) THEN best
    ELSE PyMaxLast(scores, i + 1, IF scores[i] >= scores[best] THEN i ELSE best)

\* max(scores, key=scores.get): the keys are visited in the order of the
\* table and a key replaces the best one only with a greater score
RECURSIVE PyMax(_, _, _)
PyMax(scores, i, best) ==
    IF i > Len(scores) THEN best
    ELSE PyMax(scores, i + 1, IF scores[i] > scores[best] THEN i ELSE best)

ProjectText(description, languages) ==
    LowerStr(description \o << " " >> \o JoinSpace(languages))

\* classify_project of app.py
classify_project(description, languages) ==
    LET scores == Scores(PROJECT_DOMAIN_RULES, ProjectText(description, languages)) IN
    IF \A d \in 1..Len(scores) : scores[d] = 0
    THEN "unknown"
    ELSE PROJECT_DOMAIN_RULES[PyMax(scores, 2, 1)].domain

\* classify_project of k.py
classify_project_k(description, languages) ==
    LET scores == Scores(PROJECT_DOMAIN_RULES_K, ProjectText(description, languages)) IN
    PROJECT_DOMAIN_RULES_K[PyMax(scores, 2, 1)].domain

\* nothing has been classified
NotClassified == [app |-> "none", k |-> "none"]

\* the repository is classified by both
classify ==
    /\ classified = NotClassified
    /\ classified' = [app |-> classify_project(project.description, project.languages),
                      k |-> classify_project_k(project.description, project.languages)]
    /\ UNCHANGED << project, student, session, skills, has_resume, today, resp,
                    other_session, readerVars, pending >>

\* ------------------------------------------------------------------------
\* login, logout
\* ------------------------------------------------------------------------
\* POST /login: passwordOk is whether the posted password matches the hash
login(passwordOk) ==
    /\ session' = IF passwordOk
                  THEN SetItem(SetItem(session, K("user_id"), PyInt(1)), K("user_name"), S("name"))
                  ELSE session
    /\ resp' = Response("login", IF passwordOk THEN "302" ELSE "200", << >>, NoView)
    /\ UNCHANGED << student, skills, has_resume, today >>

\* GET /logout
logout ==
    /\ session' = PyDict(<< >>, << >>)
    /\ resp' = Response("logout", "302", << >>, NoView)
    /\ UNCHANGED << student, skills, has_resume, today >>

\* ------------------------------------------------------------------------
\* Model outputs
\* ------------------------------------------------------------------------
\* json_encode: the JSON text of a value.  The style fixes the tokens
\* written around the separators: "compact" none, "spaced" a space after
\* comma and colon, "loose" a space on both sides of the colon as well.
ToDigit(n) ==
    CASE n = 0 -> "0" [] n = 1 -> "1" [] n = 2 -> "2" [] n = 3 -> "3" [] n = 4 -> "4"
      [] n = 5 -> "5" [] n = 6 -> "6" [] n = 7 -> "7" [] n = 8 -> "8" [] OTHER -> "9"
RECURSIVE ToDigits(_)
ToDigits(n) == IF n < 10 THEN << ToDigit(n) >> ELSE ToDigits(n \div 10) \o << ToDigit(n % 10) >>

ItemSep(style) == IF style = "compact" THEN << COMMA >> ELSE << COMMA, SP >>
KeySep(style) ==
    CASE style = "compact" -> << COLON >>
      [] style = "spaced" -> << COLON, SP >>
      [] OTHER -> << SP, COLON, SP >>

RECURSIVE json_encode(_, _)
RECURSIVE EncodeItems(_, _, _)
EncodeItems(v, style, i) ==
    IF i > Len(v.c) THEN << >>
    ELSE (IF i > 1 THEN ItemSep(style) ELSE << >>)
         \o (IF IsDict(v) THEN << Q >> \o v.k[i] \o << Q >> \o KeySep(style) ELSE << >>)
         \o json_encode(v.c[i], style)
         \o EncodeItems(v, style, i + 1)
json_encode(v, style) ==
    CASE v.t = "none" -> << NULLTOK >>
      [] v.t = "int"  -> ToDigits(v.n)
      [] v.t = "str"  -> << Q >> \o v.s \o << Q >>
      [] v.t = "list" -> << LB >> \o EncodeItems(v, style, 1) \o << RB >>
      [] OTHER        -> << LC >> \o EncodeItems(v, style, 1) \o << RC >>

Styles == {"compact", "spaced", "loose"}

\* values of the shapes the prompts ask for, and values near them
Role(r, n) == PyDict(<< K("role"), K("score") >>, << PyStr(r), PyInt(n) >>)
Step(t) == PyDict(<< K("title"), K("description"), K("status") >>, << S(t), S("w"), S("Focus") >>)
D1(k1, v1) == PyDict(<< K(k1) >>, << v1 >>)
D2(k1, v1, k2, v2) == PyDict(<< K(k1), K(k2) >>, << v1, v2 >>)
EmptyList == PyList(<< >>)
EmptyDict == PyDict(<< >>, << >>)

RoleLists ==
    { PyList(<< Role(K("SDE"), 90) >>),
      PyList(<< Role(K("SDE"), 10), Role(K("ML"), 90) >>),
      PyList(<< Role(K("SDE"), 90), Role(K("ML"), 10), Role(K("Web"), 10) >>) }

RoadmapLists == { PyList(<< Step("Python") >>), PyList(<< Step("Python"), Step("Flask") >>) }

CertObjects ==
    { D2("valid", PyInt(1), "skill", S("python")),
      D2("valid", PyInt(1), "skill", S("PYTHON")),
      D2("valid", PyInt(1), "skill", S("go")),
      D2("valid", PyInt(0), "skill", S("python")),
      D1("valid", PyInt(1)),
      D1("valid", PyInt(0)) }

BountyObject ==
    PyDict(<< K("question"), K("options"), K("answer") >>,
           << S("w"), PyList(<< S("A"), S("B"), S("C"), S("D") >>), PyInt(1) >>)

MarketObject == D2("market_roles", PyList(<< D1("role", S("SDE")) >>), "optimization", EmptyList)

AnalysisObject ==
    PyDict(<< K("repo_classifications"), K("detected_domains"), K("gaps"),
              K("readiness"), K("suggestions") >>,
           << D1("repo", S("Web")), PyList(<< S("Web") >>), PyList(<< S("w") >>),
              PyStr(<< "Job", SP, "Ready" >>), EmptyList >>)

LeetcodeObject ==
    PyDict(<< K("strengths"), K("focus"), K("plan") >>, << S("w"), S("w"), S("w") >>)

PathwayObject ==
    PyDict(<< K("course"), K("primaryDomain"), K("secondaryDomains"),
              K("pathwayType"), K("pathwayWeights") >>,
           << S("cse"), S("software"), PyList(<< S("web") >>), S("w"), EmptyDict >>)

\* values that conform to the shape some call site asks for
ConformingValues ==
    RoleLists \cup RoadmapLists \cup CertObjects
    \cup { BountyObject, MarketObject, AnalysisObject, LeetcodeObject, PathwayObject,
           EmptyList }

\* values that parse but conform to no shape, or hold text that the
\* cleaning or the field patterns react to
OtherValues ==
    { EmptyDict, PyInt(42), S("w"), PyNone,
      PyList(<< PyInt(1), Role(K("SDE"), 90) >>),
      PyList(<< D1("role", S("SDE")) >>),
      PyList(<< D1("score", PyInt(9)) >>),
      PyList(<< Role(<< "SDE", SP, FENCE >>, 90) >>),
      PyList(<< Role(<< "a", RB, "b" >>, 90) >>),
      D2("valid", PyInt(1), "skill", PyStr(<< "python", SP, FENCE, SP, "go" >>)),
      D2("valid", PyInt(1), "skill", PyStr(<< >>)),
      D2("valid", PyInt(1), "skill", PyNone),
      D1("valid", PyInt(10)),
      D1("valid", S("1")),
      D1("x", D1("valid", PyInt(1))),
      D2("valid", PyInt(1), "x", D1("skill", S("go"))),
      D2("question", S("w"), "answer", S("1")),
      D1("question", S("w")),
      D1("readiness", S("w")),
      D1("repo_classifications", PyList(<< PyInt(1) >>)),
      D1("roadmap", PyList(<< Step("Python") >>)),
      D2("xp", PyInt(999), "top_roles", PyInt(7)),
      D1("error", D2("message", S("w"), "code", PyInt(401))),
      D1("errors", PyList(<< D1("message", S("w")) >>)) }

SampleValues == ConformingValues \cup OtherValues

\* what may stand before and behind the JSON text in the message content
Wrappers ==
    { << << >>, << >> >>,
      << << "w", SP >>, << >> >>,
      << << "w", SP >>, << SP, "w" >> >>,
      << << FENCE, JSONTAG, NL >>, << NL, FENCE >> >>,
      << << FENCE, NL >>, << NL, FENCE >> >>,
      << << FENCE, "js", NL >>, << NL, FENCE >> >>,
      << << "w", NL, FENCE, JSONTAG, NL >>, << NL, FENCE, NL, "w" >> >> }

\* the compact text of every value in every wrapper, and its other styles
\* without a wrapper
WrappedTexts ==
    { w[1] \o json_encode(v, "compact") \o w[2] : w \in Wrappers, v \in SampleValues }
    \cup { json_encode(v, style) : v \in SampleValues, style \in Styles }

\* texts cut off by the token limit
TruncatedTexts ==
    { SubSeq(json_encode(v, "compact"), 1, Len(json_encode(v, "compact")) - 1) : v \in SampleValues }

\* every token sequence of at most MaxLen tokens over a small alphabet
MaxLen == 2
Alphabet == { LB, RB, LC, RC, "1", "w", FENCE }
RECURSIVE SeqsUpTo(_)
SeqsUpTo(n) ==
    IF n = 0 THEN { << >> }
    ELSE LET shorter == SeqsUpTo(n - 1) IN
         shorter \cup { Append(q, a) : q \in { r \in shorter : Len(r) = n - 1 }, a \in Alphabet }
ShortTexts == SeqsUpTo(MaxLen)

\* texts in which the field patterns of upload_certificate do not match as
\* they stand: keys without quotes and a misspelt key; a misspelt key in
\* quotes; a fence between the key and its digit
NearMissTexts ==
    { << "valid", COLON, SP, "1", COMMA, SP, "skil", COLON, SP, Q, "Python", Q >>,
      << LC, Q, "vaild", Q, COLON, SP, "1", COMMA, SP, Q, "skil", Q, COLON, SP,
         Q, "Python", Q, RC >>,
      << LC, Q, "valid", Q, COLON, SP, FENCE, "1", RC >> }

\* message contents of a reply with status 200
Contents == WrappedTexts \cup TruncatedTexts \cup ShortTexts \cup NearMissTexts

\* bodies of a reply with another status, and messages of exceptions
ErrorBodies ==
    { json_encode(v, "compact") : v \in SampleValues }
    \cup { << >>, << "w" >>, << "w", SP, "w" >> }
ExceptionTexts ==
    { << "w" >>, << LB, "Errno", SP, "1", "1", "1", RB, SP, "w" >>, << "'choices'" >> }

\* the outcomes of an outbound call
Upstream ==
    { [kind |-> "nokey", body |-> << >>] }
    \cup { [kind |-> "ok", body |-> b] : b \in Contents }
    \cup { [kind |-> "status", body |-> b] : b \in ErrorBodies }
    \cup { [kind |-> "exc", body |-> b] : b \in ExceptionTexts }

\* a few outcomes for the other call of a handler that makes two
FewUpstream ==
    { [kind |-> "ok", body |-> << "w" >>],
      [kind |-> "ok", body |-> json_encode(PyList(<< Step("Python") >>), "compact")],
      [kind |-> "ok", body |-> json_encode(PathwayObject, "compact")] }

UpstreamPairs == (Upstream \X FewUpstream) \cup (FewUpstream \X Upstream)

\* the inputs of a request that makes its outbound calls behind two checks
\* (a posted file and the OCR, or two form fields): the two requests that
\* fail a check, and the requests that reach the outbound calls
NoCall == [kind |-> "nokey", body |-> << >>]
OneCallRequests ==
    { [hasFile |-> FALSE, ocrOk |-> TRUE, up |-> NoCall],
      [hasFile |-> TRUE, ocrOk |-> FALSE, up |-> NoCall] }
    \cup { [hasFile |-> TRUE, ocrOk |-> TRUE, up |-> u] : u \in Upstream }
TwoCallRequests ==
    { [hasFile |-> FALSE, ocrOk |-> TRUE, up |-> << NoCall, NoCall >>],
      [hasFile |-> TRUE, ocrOk |-> FALSE, up |-> << NoCall, NoCall >>] }
    \cup { [hasFile |-> TRUE, ocrOk |-> TRUE, up |-> p] : p \in UpstreamPairs }

\* ------------------------------------------------------------------------
\* Initial states and next-state relation
\* ------------------------------------------------------------------------
NewStudent ==
    PyDict(<< K("email"), K("password_hash"), K("xp"), K("top_roles"), K("roadmap"),
              K("market_analysis"), K("last_bounty_date") >>,
           << S("email"), S("hash"), PyInt(0), PyNone, PyNone, PyNone, PyNone >>)

LoggedInSession == D2("user_id", PyInt(1), "user_name", S("name"))

PythonSkill == [skill_name |-> << "Python" >>, verified |-> TRUE]

StoredBounty == SetItem(BountyObject, K("skill"), S("Python"))

\* states of one student and one browser session that requests lead to: a
\* new account; a verified skill; a bounty waiting in the session; the
\* bounty solved today; roles and a market analysis stored; logged out
InitStates ==
    { [student |-> NewStudent, session |-> LoggedInSession, skills |-> << >>, has_resume |-> FALSE],
      [student |-> NewStudent, session |-> LoggedInSession, skills |-> << PythonSkill >>,
       has_resume |-> FALSE],
      [student |-> NewStudent,
       session |-> SetItem(SetItem(LoggedInSession, K("bounty_data"), StoredBounty),
                           K("bounty_skill"), S("Python")),
       skills |-> << PythonSkill >>, has_resume |-> FALSE],
      [student |-> SetItem(SetItem(NewStudent, K("last_bounty_date"), PyDate(1)), K("xp"), PyInt(50)),
       session |-> LoggedInSession, skills |-> << PythonSkill >>, has_resume |-> FALSE],
      [student |-> SetItem(SetItem(NewStudent, K("top_roles"),
                                   PyList(<< Role(K("SDE"), 10), Role(K("ML"), 90) >>)),
                           K("market_analysis"), MarketObject),
       session |-> LoggedInSession, skills |-> << >>, has_resume |-> TRUE],
      [student |-> NewStudent, session |-> EmptyDict, skills |-> << >>, has_resume |-> FALSE] }

NoResponse == Response("none", "none", << >>, NoView)

\* the words of the descriptions and the languages of the repositories
DescriptionWords ==
    { << "R", "e", "a", "c", "t" >>,
      << "a", "p", "p" >>,
      << "H", "T", "M", "L" >>,
      << "A", "r", "d", "u", "i", "n", "o" >>,
      << "m", "a", "c", "h", "i", "n", "e" >>,
      << "l", "e", "a", "r", "n", "i", "n", "g" >> }
LanguageNames ==
    { << "P", "y", "t", "h", "o", "n" >>,
      << "J", "a", "v", "a", "S", "c", "r", "i", "p", "t" >>,
      << "H", "T", "M", "L" >> }
MaxWords == 2
MaxLanguages == 2

\* the descriptions: up to MaxWords words with a space between them
RECURSIVE Descriptions(_)
Descriptions(n) ==
    IF n = 0 THEN { << >> }
    ELSE Descriptions(n - 1)
         \cup { IF d = << >> THEN w ELSE d \o << " " >> \o w :
                  d \in Descriptions(n - 1), w \in DescriptionWords }

\* the language lists: up to MaxLanguages different languages
RECURSIVE LanguageLists(_)
LanguageLists(n) ==
    IF n = 0 THEN { << >> }
    ELSE LanguageLists(n - 1)
         \cup { Append(l, w) : l \in { m \in LanguageLists(n - 1) : Len(m) = n - 1 },
                                w \in LanguageNames }

Projects ==
    { [description |-> d, languages |-> l] :
        d \in Descriptions(MaxWords), l \in LanguageLists(MaxLanguages) }

NoProject == [description |-> << >>, languages |-> << >>]

\* no thread has called get_reader
InitReader ==
    /\ reader_instance = 0
    /\ constructed = 0
    /\ pc = [t \in Threads |-> "idle"]
    /\ made = [t \in Threads |-> 0]
    /\ got = [t \in Threads |-> 0]

\* a student who has signed up, and no request yet
InitRequestFrom(states) ==
    /\ \E i \in states :
          /\ student = i.student
          /\ session = i.session
          /\ skills = i.skills
          /\ has_resume = i.has_resume
    /\ today = 1
    /\ resp = NoResponse
    /\ other_session = EmptyDict
    /\ pending = [t \in Workers |-> NoRequest]

InitRequest == InitRequestFrom(InitStates)

\* the student has signed up and logged in
SignedUp ==
    [student |-> NewStudent, session |-> LoggedInSession, skills |-> << >>,
     has_resume |-> FALSE]

Init ==
    /\ InitRequest
    /\ InitReader
    /\ project = NoProject
    /\ classified = NotClassified

\* one request is handled from the initial state
Idle == resp = NoResponse

\* what a request of this browser leaves alone
Elsewhere == UNCHANGED << other_session, readerVars, classifyVars, pending >>

Next ==
    \/ Idle /\ Elsewhere /\ \E r \in TwoCallRequests :
          upload_resume(r.hasFile, r.ocrOk, r.up[1], r.up[2])
    \/ Idle /\ Elsewhere /\ \E up \in Upstream : market(up)
    \/ Idle /\ Elsewhere /\ \E sorted \in SortOutcomes(Field("top_roles")),
                   target_skill \in SkillNames \cup { << >> }, up \in Upstream :
          dashboard(sorted, target_skill, up)
    \/ Idle /\ Elsewhere /\ \E option_index \in { PyNone } \cup { PyInt(n) : n \in 0..3 } :
          solve_bounty(option_index)
    \/ Idle /\ Elsewhere /\ \E r \in OneCallRequests :
          upload_certificate(r.hasFile, r.ocrOk, r.up)
    \/ Idle /\ Elsewhere /\ \E r \in OneCallRequests :
          leetcode_analysis(r.hasFile, r.ocrOk, r.up)
    \/ Idle /\ Elsewhere /\ \E r \in TwoCallRequests :
          generate_resume(r.hasFile /\ r.ocrOk, r.up[1], r.up[2])
    \/ Idle /\ Elsewhere /\ \E r \in OneCallRequests :
          analyze_profile(r.hasFile, r.ocrOk, r.up)
    \/ Idle /\ Elsewhere /\ \E hasMessage \in BOOLEAN, up \in Upstream :
          api_chat(hasMessage, up)
    \/ Idle /\ Elsewhere /\ \E passwordOk \in BOOLEAN : login(passwordOk)
    \/ Idle /\ Elsewhere /\ logout

Spec == Init /\ [][Next]_vars

\* ------------------------------------------------------------------------
\* Properties of the handled request
\* ------------------------------------------------------------------------
\* the route made an outbound call
Called(route) == resp.route = route /\ resp.calls # << >>

\* the text holds the token
HasTok(s, tok) == \E i \in 1..Len(s) : s[i] = tok

\* the student documents before the request
InitStudents == { i.student : i \in InitStates }

\* upload_resume got behind the login check and wrote the student document
ResumeStored == Called("upload_resume") /\ LoggedIn

\* an object carrying both a role and a score
ValidRole(x) == IsDict(x) /\ HasKey(x, K("role")) /\ HasKey(x, K("score"))
ValidRoleList(v) == IsList(v) /\ \A i \in 1..Len(v.c) : ValidRole(v.c[i])

\* C1: whatever text ask_llama returns, no call site lets an exception
\* leave its route handler: a request that made an outbound call never
\* ends with status 500.
C1_NeverRaises == resp.calls # << >> => resp.status # "500"

\* C2: the top_roles that upload_resume persists is a list whose elements
\* all carry a role and a score, or it is exactly the three-entry fallback
\* list.
C2_PersistedRolesValid ==
    ResumeStored =>
        \/ ValidRoleList(Field("top_roles"))
        \/ Field("top_roles") = FALLBACK_ROLES

\* C3: for a model output that holds no bracket of the expected kind, every
\* call site ends with its declared fallback: upload_resume stores the
\* fallback role list, market renders analysis None and stores nothing,
\* analyze_profile answers with the fixed "Analysis Failed" data, and
\* dashboard renders no bounty.
C3_NoBracketFallback ==
    /\ (ResumeStored /\ ~HasTok(resp.calls[1], LB) /\ ~HasTok(resp.calls[1], RB))
          => Field("top_roles") = FALLBACK_ROLES
    /\ (Called("market") /\ ~HasTok(resp.calls[1], LC) /\ ~HasTok(resp.calls[1], RC))
          => /\ Item(resp.view, K("analysis")) = PyNone
             /\ student \in InitStudents
    /\ (Called("analyze_profile") /\ ~HasTok(resp.calls[1], LC) /\ ~HasTok(resp.calls[1], RC))
          => /\ resp.status = "200"
             /\ resp.view = AnalysisResponse(ANALYSIS_FALLBACK)
    /\ (Called("dashboard") /\ ~HasTok(resp.calls[1], LC) /\ ~HasTok(resp.calls[1], RC))
          => /\ resp.status = "200"
             /\ Item(resp.view, K("bounty")) = PyNone

\* the positions of a token, and the outermost pair of brackets of text c
\* read as JSON: [found, v], found false when a bracket is absent or the
\* text between the first open and the last close is no JSON text
Positions(c, tok) == { i \in 1..Len(c) : c[i] = tok }
Lowest(P) == CHOOSE i \in P : \A j \in P : i <= j
Highest(P) == CHOOSE i \in P : \A j \in P : i >= j
Outermost(c, open, close) ==
    IF Positions(c, open) = {} \/ Positions(c, close) = {}
    THEN [found |-> FALSE, v |-> PyNone]
    ELSE LET r == JsonLoads(SubSeq(c, Lowest(Positions(c, open)), Highest(Positions(c, close))))
         IN [found |-> r.ok, v |-> IF r.ok THEN r.v ELSE PyNone]

\* a JSON array with prose before and behind it that holds no bracket
ProseWrappers == { w \in Wrappers : ~HasTok(w[1] \o w[2], FENCE) }
ListValues == { v \in SampleValues : IsList(v) }
ProseArrays ==
    { [text |-> Strip(w[1] \o json_encode(v, "compact") \o w[2]), v |-> v] :
        w \in ProseWrappers, v \in ListValues }

\* what each slicing call site makes of its model output, given what the
\* outermost bracket pair of the text c holds
RolesFrom(c) ==
    LET o == Outermost(c, LB, RB) IN
    Field("top_roles") = IF o.found /\ o.v.c # << >> THEN o.v ELSE FALLBACK_ROLES
RoadmapFrom(c) ==
    LET o == Outermost(c, LB, RB) IN
    Field("roadmap") = IF o.found THEN o.v ELSE PyNone
MarketFrom(c) ==
    LET o == Outermost(c, LC, RC) IN
    /\ Item(resp.view, K("analysis")) = o.v
    /\ Field("market_analysis") = o.v
    /\ ~o.found => student \in InitStudents
BountyFrom(c) ==
    LET o == Outermost(c, LC, RC)
        bounty == Item(resp.view, K("bounty"))
    IN IF o.found
       THEN /\ SessionGet("bounty_data") = bounty
            /\ \E skill \in SkillNames : bounty = SetItem(o.v, K("skill"), PyStr(skill))
       ELSE bounty = PyNone

\* C4 (as amended): at the call sites that slice (roles and roadmap of
\* upload_resume, market, the bounty of dashboard) the text parsed is the
\* part of the fence-stripped model output from the first opening bracket
\* of the expected kind to the last closing one, both included; a
\* non-empty JSON array with bracket-free prose around it is therefore
\* stored as that array; when either bracket is absent, or the part is no
\* JSON text, the call site ends with its fallback; an empty array of
\* roles is replaced by the fallback list as well.
C4_BracketExtraction ==
    /\ ResumeStored => RolesFrom(Clean(resp.calls[1]))
    /\ (ResumeStored /\ Len(resp.calls) = 2) => RoadmapFrom(Clean(resp.calls[2]))
    /\ Called("market") => MarketFrom(Clean(resp.calls[1]))
    /\ (Called("dashboard") /\ resp.status = "200") => BountyFrom(Clean(resp.calls[1]))
    /\ ResumeStored =>
          LET c == Clean(resp.calls[1]) IN
          \A a \in ProseArrays : (c = a.text /\ a.v.c # << >>) => Field("top_roles") = a.v

\* C4 witness: upload_resume stored the array that its model output holds
\* between two pieces of prose.
C4_Witness ==
    /\ ResumeStored
    /\ resp.calls[1] = << "w", SP >> \o json_encode(PyList(<< Role(K("SDE"), 90) >>), "compact")
                          \o << SP, "w" >>
    /\ Field("top_roles") = PyList(<< Role(K("SDE"), 90) >>)

\* C4 as stated: every valid JSON array with bracket-free prose around it
\* is stored as that array.
C4_AsStated ==
    \A a \in ProseArrays :
        (ResumeStored /\ resp.calls[1] = a.text) => Field("top_roles") = a.v

\* J in a fenced code block whose opening fence carries a language tag
FencedBlock(tag, J) == << FENCE, tag, NL >> \o J \o << NL, FENCE >>
LanguageTags == { JSONTAG, "js" }

\* upload_certificate treated the certificate as valid, for skill name
ProcessedValid(name) ==
    /\ HasKey(resp.view, K("skill_name"))
    /\ Item(resp.view, K("skill_name")) = PyStr(name)
    /\ \E i \in 1..Len(skills) :
          Lower(skills[i].skill_name) = Lower(name) /\ skills[i].verified

\* C5: a JSON text J of the expected shape in a fenced code block with a
\* language tag gives, at every call site, the result that J alone gives.
C5_FencedSameAsBare ==
    \A tag \in LanguageTags :
        /\ \A v \in RoleLists :
              (ResumeStored /\ resp.calls[1] = FencedBlock(tag, json_encode(v, "compact")))
                  => Field("top_roles") = RolesOrFallback(ParseRoles(json_encode(v, "compact")))
        /\ (Called("market") /\ resp.calls[1] = FencedBlock(tag, json_encode(MarketObject, "compact")))
              => Field("market_analysis") = ParseMarket(json_encode(MarketObject, "compact")).v
        /\ (Called("analyze_profile")
              /\ resp.calls[1] = FencedBlock(tag, json_encode(AnalysisObject, "compact")))
              => resp.view = AnalysisResponse(ParseAnalysis(json_encode(AnalysisObject, "compact")))
        /\ (Called("leetcode_analysis")
              /\ resp.calls[1] = FencedBlock(tag, json_encode(LeetcodeObject, "compact")))
              => SessionGet("leetcode_suggestion_json")
                    = ParseLeetcode(json_encode(LeetcodeObject, "compact")).v
        /\ \A v \in CertObjects :
              (Called("upload_certificate")
                 /\ resp.calls[1] = FencedBlock(tag, json_encode(v, "compact")))
                  => (CertValid(json_encode(v, "compact")) = 1
                         <=> ProcessedValid(CertSkill(json_encode(v, "compact"))))

\* values that conform to the shape of the role list: every element
\* carries a role and a score (the empty array among them)
RoleShaped == { v \in SampleValues : ValidRoleList(v) }

\* C6: for a value X that conforms to the expected shape, the empty array
\* included, the model output json_encode(X) is normalized to X itself.
C6_Idempotent ==
    \A style \in Styles :
        /\ \A v \in RoleShaped :
              (ResumeStored /\ resp.calls[1] = json_encode(v, style))
                  => Field("top_roles") = v
        /\ (Called("leetcode_analysis") /\ resp.calls[1] = json_encode(LeetcodeObject, style))
              => SessionGet("leetcode_suggestion_json") = LeetcodeObject

\* C7: when the cleaned model output of upload_certificate is strictly
\* parseable JSON, valid and skill are the values of the strict parse:
\* the certificate is treated as valid exactly when the parsed object
\* carries valid 1, and then for the skill the parsed object names.
C7_StrictParseFirst ==
    Called("upload_certificate") =>
        LET r == JsonLoads(Clean(resp.calls[1]))
            valid == Get(r.v, K("valid"), PyInt(0))
            skill == Get(r.v, K("skill"), PyNone)
        IN (r.ok /\ IsDict(r.v)) =>
              IF valid = PyInt(1)
              THEN ProcessedValid(IF skill.t = "str" /\ skill.s # << >>
                                  THEN Title(Strip(skill.s)) ELSE UNKNOWN_SKILL)
              ELSE ~HasKey(resp.view, K("skill_name"))

\* the elements of a list that carry a role and a score
ValidElements(v) == SelectSeq(v.c, ValidRole)

\* C8: the elements of the parsed role array that are no objects with a
\* role and a score are dropped one by one; the elements that remain are
\* stored, and the fallback list only when none remains.
C8_InvalidElementsDropped ==
    ResumeStored =>
        LET o == Outermost(Clean(resp.calls[1]), LB, RB) IN
        (o.found /\ IsList(o.v)) =>
            Field("top_roles") = IF ValidElements(o.v) = << >> THEN FALLBACK_ROLES
                                 ELSE PyList(ValidElements(o.v))

\* the text is one of the strings ask_llama returns for a failed call
HasPrefix(t, p) == Len(t) >= Len(p) /\ SubSeq(t, 1, Len(p)) = p
UpstreamFailed(t) == t = MSG_NO_KEY \/ HasPrefix(t, MSG_ERROR) \/ HasPrefix(t, MSG_FAILED)

\* C9: when the outbound call fails, every call site ends with its
\* fallback and stores nothing that it read out of the error string.
C9_ErrorStringFallback ==
    /\ (ResumeStored /\ UpstreamFailed(resp.calls[1])) => Field("top_roles") = FALLBACK_ROLES
    /\ (ResumeStored /\ Len(resp.calls) = 2 /\ UpstreamFailed(resp.calls[2]))
          => Field("roadmap") = PyNone
    /\ (Called("market") /\ UpstreamFailed(resp.calls[1]))
          => Item(resp.view, K("analysis")) = PyNone /\ student \in InitStudents
    /\ (Called("dashboard") /\ UpstreamFailed(resp.calls[1]))
          => Item(resp.view, K("bounty")) = PyNone /\ ~HasKey(session, K("bounty_data"))
    /\ (Called("analyze_profile") /\ UpstreamFailed(resp.calls[1]))
          => resp.view = AnalysisResponse(ANALYSIS_FALLBACK)
    /\ (Called("leetcode_analysis") /\ UpstreamFailed(resp.calls[1]))
          => SessionGet("leetcode_suggestion_json") = PyNone
    /\ (Called("generate_resume") /\ \A i \in 1..Len(resp.calls) : UpstreamFailed(resp.calls[i]))
          => student \in InitStudents
    /\ (Called("upload_certificate") /\ UpstreamFailed(resp.calls[1]))
          => ~HasKey(resp.view, K("skill_name"))

\* objects that carry the valid flag 1 and no skill string, and their
\* JSON texts written as json.dumps writes them (no whitespace before a
\* colon), alone, in prose or in a fenced block
FlagOnly == { D1("valid", PyInt(1)), D2("valid", PyInt(1), "skill", PyNone) }
FlagOnlyTexts ==
    { Strip(w[1] \o json_encode(v, style) \o w[2]) :
        v \in FlagOnly, w \in Wrappers, style \in {"compact", "spaced"} }

AnalysisKeys ==
    { [key |-> K("detected_domains"), field |-> K("github_domains_detected"), default |-> EmptyList],
      [key |-> K("gaps"), field |-> K("missing_projects"), default |-> EmptyList],
      [key |-> K("suggestions"), field |-> K("ai_suggestions"), default |-> EmptyList],
      [key |-> K("readiness"), field |-> K("career_readiness"), default |-> S("Pending")] }

\* the model output of analyze_profile parses to an object that lacks one
\* of the required keys
LacksAnalysisKey(v) ==
    /\ IsDict(v)
    /\ \/ ~HasKey(v, K("repo_classifications"))
       \/ \E k \in AnalysisKeys : ~HasKey(v, k.key)

\* the response of analyze_profile holds the default for every key that the
\* object lacks; with no classifications every repository gets the domain
\* of the heuristic
DefaultsFilled(v) ==
    /\ resp.status = "200"
    /\ \A k \in AnalysisKeys :
          ~HasKey(v, k.key) => Item(resp.view, k.field) = k.default
    /\ ~HasKey(v, K("repo_classifications"))
          => Item(resp.view, K("projects")) = PyList(<< HEURISTIC_DOMAIN >>)

\* C11: in analyze_profile, when the model output parses to an object that
\* lacks some of the required keys, the result does not fail and the missing
\* keys are filled with their defaults: an empty mapping for
\* repo_classifications, empty lists for detected_domains, gaps and
\* suggestions, 'Pending' for readiness.
C11_MissingKeyDefaults ==
    Called("analyze_profile") =>
        LET r == JsonLoads(Clean(resp.calls[1])) IN
        (r.ok /\ LacksAnalysisKey(r.v)) => DefaultsFilled(r.v)

\* the same with a repo_classifications that is a mapping when it is there
C11_DefaultsWhenMapping ==
    Called("analyze_profile") =>
        LET r == JsonLoads(Clean(resp.calls[1])) IN
        (/\ r.ok
         /\ LacksAnalysisKey(r.v)
         /\ IsDict(Get(r.v, K("repo_classifications"), EmptyDict))) => DefaultsFilled(r.v)


\* the routes whose handler calls ask_llama at two places
TwoCallRoutes == { "upload_resume", "generate_resume" }

\* C12 (as amended): a request triggers at most two outbound calls to the
\* generation service, one after the other: upload_resume (roles, then
\* roadmap) and generate_resume (pathway, then roadmap) make up to two,
\* every other route makes at most one.
C12_CallsPerRequest ==
    /\ Len(resp.calls) <= 2
    /\ resp.route \notin TwoCallRoutes => Len(resp.calls) <= 1

\* upload_resume has asked for the roles and then for the roadmap
C12_Witness ==
    /\ ResumeStored
    /\ resp.status = "302"
    /\ Len(resp.calls) = 2
    /\ Field("roadmap") # PyNone

\* C12 (as stated): every request, on every route, triggers at most one
\* outbound call to the generation service.
C12_AsStated == Len(resp.calls) <= 1


\* ------------------------------------------------------------------------
\* get_reader, called by the threads of the server
\* ------------------------------------------------------------------------
\* what the threads that run get_reader leave alone
RequestState ==
    << student, session, skills, has_resume, today, resp, other_session, classifyVars,
       pending >>

\* a request handled by thread t calls get_reader
get_reader_call(t) ==
    /\ pc[t] \in {"idle", "done"}
    /\ pc' = [pc EXCEPT ![t] = "test"]
    /\ UNCHANGED << reader_instance, constructed, made, got, RequestState >>

\* if reader_instance is None:
get_reader_test(t) ==
    /\ pc[t] = "test"
    /\ pc' = [pc EXCEPT ![t] = IF reader_instance = 0 THEN "construct" ELSE "return"]
    /\ UNCHANGED << reader_instance, constructed, made, got, RequestState >>

\* easyocr.Reader(['en'], gpu=False): a new Reader is built
get_reader_construct(t) ==
    /\ pc[t] = "construct"
    /\ constructed' = constructed + 1
    /\ made' = [made EXCEPT ![t] = constructed + 1]
    /\ pc' = [pc EXCEPT ![t] = "store"]
    /\ UNCHANGED << reader_instance, got, RequestState >>

\* reader_instance = <the new Reader>
get_reader_store(t) ==
    /\ pc[t] = "store"
    /\ reader_instance' = made[t]
    /\ pc' = [pc EXCEPT ![t] = "return"]
    /\ UNCHANGED << constructed, made, got, RequestState >>

\* return reader_instance
get_reader_return(t) ==
    /\ pc[t] = "return"
    /\ got' = [got EXCEPT ![t] = reader_instance]
    /\ pc' = [pc EXCEPT ![t] = "done"]
    /\ UNCHANGED << reader_instance, constructed, made, RequestState >>

NextReader ==
    \/ \E t \in Threads : get_reader_call(t)
    \/ \E t \in Threads : get_reader_test(t)
    \/ \E t \in Threads : get_reader_construct(t)
    \/ \E t \in Threads : get_reader_store(t)
    \/ \E t \in Threads : get_reader_return(t)

InitReaderOnly ==
    /\ InitRequestFrom({ SignedUp })
    /\ InitReader
    /\ project = NoProject
    /\ classified = NotClassified

SpecReader == InitReaderOnly /\ [][NextReader]_vars

\* C13: for any number of requests that call get_reader, in any
\* interleaving of concurrent first calls, easyocr.Reader is constructed at
\* most once in the process and every caller receives that same instance.
C13_ReaderConstructedOnce ==
    /\ constructed <= 1
    /\ \A t, u \in Threads : (got[t] # 0 /\ got[u] # 0) => got[t] = got[u]


\* ------------------------------------------------------------------------
\* classify_project on the repositories
\* ------------------------------------------------------------------------
InitClassify ==
    /\ InitRequestFrom({ SignedUp })
    /\ InitReader
    /\ project \in Projects
    /\ classified = NotClassified

NextClassify == classify

SpecClassify == InitClassify /\ [][NextClassify]_vars

\* the scores of the repository under the table
ProjectScores(rules) == Scores(rules, ProjectText(project.description, project.languages))

\* the domain is the first of the table, in declaration order, whose score
\* is the greatest
FirstMaximal(rules, name) ==
    LET scores == ProjectScores(rules) IN
    \E d \in 1..Len(rules) :
        /\ rules[d].domain = name
        /\ \A e \in 1..Len(rules) : scores[e] <= scores[d]
        /\ \A e \in 1..(d - 1) : scores[e] < scores[d]

\* no keyword of the table is in the text
NoMatch(rules) == \A d \in 1..Len(rules) : ProjectScores(rules)[d] = 0

\* C14 (as amended): when a keyword matches, classify_project returns the
\* first domain in declaration order of PROJECT_DOMAIN_RULES among those
\* with the greatest score; when none matches, app.py returns "unknown" and
\* k.py returns the first domain of its table.
C14_FirstMaximalDomain ==
    classified # NotClassified =>
        /\ IF NoMatch(PROJECT_DOMAIN_RULES)
           THEN classified.app = "unknown"
           ELSE FirstMaximal(PROJECT_DOMAIN_RULES, classified.app)
        /\ FirstMaximal(PROJECT_DOMAIN_RULES_K, classified.k)

\* two domains share the greatest score and the earlier one is returned
C14_Witness ==
    /\ classified.app = "software"
    /\ ProjectScores(PROJECT_DOMAIN_RULES)[1] = 1
    /\ ProjectScores(PROJECT_DOMAIN_RULES)[4] = 1
    /\ ProjectScores(PROJECT_DOMAIN_RULES)[2] = 0

\* C14 (as stated): for every description and language list
\* classify_project returns the first domain in declaration order of
\* PROJECT_DOMAIN_RULES among those whose score is the greatest.
C14_AsStated ==
    classified # NotClassified =>
        /\ FirstMaximal(PROJECT_DOMAIN_RULES, classified.app)
        /\ FirstMaximal(PROJECT_DOMAIN_RULES_K, classified.k)


\* ------------------------------------------------------------------------
\* The field patterns of upload_certificate
\* ------------------------------------------------------------------------
\* the quoted key with its colon stands at i and only whitespace lies
\* between the colon and position j
KeyBefore(s, key, i, j) ==
    /\ i + 3 < j
    /\ j <= Len(s)
    /\ SubSeq(s, i, i + 3) = << Q, key, Q, COLON >>
    /\ \A x \in (i + 4)..(j - 1) : IsWS(s[x])

\* in s, "valid": is followed by a digit
ValidOccurs(s) ==
    \E i, j \in 1..Len(s) : KeyBefore(s, "valid", i, j) /\ IsDigit(s[j])

\* in s, "skill": is followed by a quoted string that is not empty
SkillOccurs(s) ==
    \E i, j, e \in 1..Len(s) :
        /\ KeyBefore(s, "skill", i, j)
        /\ s[j] = Q
        /\ j + 1 < e
        /\ s[e] = Q
        /\ \A x \in (j + 1)..(e - 1) : s[x] # Q

\* the skill entries before the request
InitSkills == { i.skills : i \in InitStates }

\* the certificate was taken for invalid: nothing is said about a skill and
\* the skill entries are those from before
CertificateRejected ==
    /\ resp.view = PyDict(<< K("flash") >>, << S("Could not verify certificate") >>)
    /\ skills \in InitSkills

\* C15 (as amended): when, in the model output with its fences removed,
\* neither "valid": followed by a digit nor "skill": followed by a quoted
\* string occurs, upload_certificate treats the certificate as invalid,
\* adds no skill and guesses no corrected key.
C15_FullFallback ==
    Called("upload_certificate") =>
        LET clean_text == Clean(resp.calls[1]) IN
        (~ValidOccurs(clean_text) /\ ~SkillOccurs(clean_text)) => CertificateRejected

\* the output valid: 1, skil: "Python" was rejected
C15_Witness ==
    /\ Called("upload_certificate")
    /\ resp.calls[1] = << "valid", COLON, SP, "1", COMMA, SP, "skil", COLON, SP, Q, "Python", Q >>
    /\ CertificateRejected

\* C15 (as stated): when neither "valid": followed by a digit nor "skill":
\* followed by a quoted string occurs in the model output,
\* upload_certificate treats the certificate as invalid and adds no skill.
C15_AsStated ==
    Called("upload_certificate") =>
        ((~ValidOccurs(resp.calls[1]) /\ ~SkillOccurs(resp.calls[1])) => CertificateRejected)


\* ------------------------------------------------------------------------
\* The bounty kept in the session
\* ------------------------------------------------------------------------
\* the documented shape of a bounty: a question, four options, an answer
\* that int() accepts, and the skill
BountyShaped(b) ==
    /\ IsDict(b)
    /\ HasKey(b, K("question"))
    /\ HasKey(b, K("options"))
    /\ IsList(Item(b, K("options")))
    /\ Len(Item(b, K("options")).c) = 4
    /\ HasKey(b, K("answer"))
    /\ IntConvertible(Item(b, K("answer")))
    /\ HasKey(b, K("skill"))
    /\ Item(b, K("skill")).t = "str"

\* C16: every bounty that dashboard stores in session['bounty_data'] has
\* the documented shape: a question, exactly four options, an answer that
\* int() accepts and the target skill.
C16_StoredBountyShaped ==
    (Called("dashboard") /\ HasKey(session, K("bounty_data")))
        => BountyShaped(SessionGet("bounty_data"))


\* ------------------------------------------------------------------------
\* What leetcode_analysis keeps of the model output
\* ------------------------------------------------------------------------
\* the model output of the request is some text that is no JSON object
NotAnObject(text) ==
    /\ text # << >>
    /\ LET r == JsonLoads(Clean(text)) IN ~(r.ok /\ IsDict(r.v))

\* C17: when the model output is not a JSON object, leetcode_analysis
\* stores no unparsed model text in the session: what it stores is a
\* fallback value that the caller declares, not the raw response text.
C17_NoRawTextStored ==
    (Called("leetcode_analysis") /\ NotAnObject(resp.calls[1]))
        => /\ SessionGet("leetcode_suggestion") # PyStr(resp.calls[1])
           /\ SessionGet("leetcode_suggestion_json") # PyStr(resp.calls[1])


\* ------------------------------------------------------------------------
\* Requests of one student, one after the other, from two browsers
\* ------------------------------------------------------------------------
\* the student uses the other browser: each browser keeps its own session
\* cookie
switch_browser ==
    /\ session' = other_session
    /\ other_session' = session
    /\ UNCHANGED << student, skills, has_resume, today, resp, readerVars, classifyVars,
                    pending >>

\* the UTC day ends: datetime.utcnow() is a day later
MaxDay == 2
next_day ==
    /\ today < MaxDay
    /\ today' = today + 1
    /\ UNCHANGED << student, session, skills, has_resume, resp, other_session,
                    readerVars, classifyVars, pending >>

\* a student with a verified skill, logged in in one browser
Skilled ==
    [student |-> NewStudent, session |-> LoggedInSession, skills |-> << PythonSkill >>,
     has_resume |-> FALSE]

\* what the model returns when asked for a bounty: the object asked for,
\* an object without the fields, prose
SeqBountyOutputs ==
    { [kind |-> "ok", body |-> json_encode(BountyObject, "compact")],
      [kind |-> "ok", body |-> << LC, RC >>],
      [kind |-> "ok", body |-> << "w" >>] }

\* what the model returns when asked for the roles: two roles, a list
\* that holds a number, a role without a score, the empty list
SeqRoleOutputs ==
    { [kind |-> "ok", body |-> json_encode(PyList(<< Role(K("SDE"), 10), Role(K("ML"), 90) >>), "compact")],
      [kind |-> "ok", body |-> << LB, "1", RB >>],
      [kind |-> "ok", body |-> json_encode(PyList(<< D1("role", S("SDE")) >>), "compact")],
      [kind |-> "ok", body |-> << LB, RB >>] }

\* what the model returns when asked for the market analysis: the object
\* asked for, the empty object, prose
SeqMarketOutputs ==
    { [kind |-> "ok", body |-> json_encode(MarketObject, "compact")],
      [kind |-> "ok", body |-> << LC, RC >>],
      [kind |-> "ok", body |-> << "w" >>] }

\* what the model returns when asked for the roadmap: a list of steps, an
\* object, prose
SeqRoadmapOutputs ==
    { [kind |-> "ok", body |-> json_encode(PyList(<< Step("Python") >>), "compact")],
      [kind |-> "ok", body |-> json_encode(D1("steps", PyList(<< Step("Python") >>)), "compact")],
      [kind |-> "ok", body |-> << "w" >>] }

\* the option that the student selects
OptionIndexes == { PyInt(0), PyInt(1) }

InitSeq ==
    /\ InitRequestFrom({ Skilled })
    /\ InitReader
    /\ project = NoProject
    /\ classified = NotClassified

NextSeq ==
    \/ Elsewhere /\ \E sorted \in SortOutcomes(Field("top_roles")),
                        target_skill \in SkillNames \cup { << >> }, up \in SeqBountyOutputs :
          dashboard(sorted, target_skill, up)
    \/ Elsewhere /\ \E option_index \in OptionIndexes : solve_bounty(option_index)
    \/ Elsewhere /\ \E up1 \in SeqRoleOutputs :
          upload_resume(TRUE, TRUE, up1, [kind |-> "ok", body |-> << "w" >>])
    \/ Elsewhere /\ login(TRUE)
    \/ switch_browser
    \/ next_day

SpecSeq == InitSeq /\ [][NextSeq]_vars

\* the student's xp
XP == Field("xp").n

\* C18: once last_bounty_date is today, no request raises the student's
\* xp: for any sequence of dashboard and solve_bounty requests, from one or
\* several sessions, xp increases by 50 at most once per UTC day.
C18_OncePerDay == [][IsSolvedToday => XP' <= XP]_vars


\* the selected option is the answer of the bounty in the session
IsAnswer(option_index) ==
    LET bounty_data == SessionGet("bounty_data") IN
    /\ IsDict(bounty_data)
    /\ IntConvertible(Get(bounty_data, K("answer"), PyNone))
    /\ ToInt(Get(bounty_data, K("answer"), PyNone)) = ToInt(option_index)

\* what solve_bounty is to do for the selected option: xp, the date, the
\* bounty of the session, and nothing else of the student
SolveEffect(option_index) ==
    /\ XP' = IF IsAnswer(option_index) THEN XP + 50 ELSE XP
    /\ Field("last_bounty_date")' = PyDate(today)
    /\ ~HasKey(session', K("bounty_data"))
    /\ student'.k = student.k
    /\ \A n \in 1..Len(student.k) :
          student.k[n] \notin { K("xp"), K("last_bounty_date") } => student'.c[n] = student.c[n]
    /\ UNCHANGED << skills, has_resume >>

\* C19: solve_bounty with a bounty present in the session: xp becomes xp+50
\* exactly when the selected option equals the bounty's answer and is left
\* unchanged otherwise; in both cases last_bounty_date is set to the current
\* time, bounty_data is removed from the session, and no other student
\* field is written.
C19_SolveBountyEffect ==
    [][\A option_index \in OptionIndexes :
          (/\ LoggedIn
           /\ Truthy(SessionGet("bounty_data"))
           /\ solve_bounty(option_index)) => SolveEffect(option_index)]_vars

\* the same for a bounty of the documented shape
C19_EffectWhenShaped ==
    [][\A option_index \in OptionIndexes :
          (/\ LoggedIn
           /\ BountyShaped(SessionGet("bounty_data"))
           /\ solve_bounty(option_index)) => SolveEffect(option_index)]_vars

\* the dashboard shows the role and the score of an element with the
\* greatest score, 'N/A' and 0 for no roles
BestReported ==
    LET top_roles == Field("top_roles") IN
    IF ~Truthy(top_roles)
    THEN /\ Item(resp.view, K("best_fit")) = S("N/A")
         /\ Item(resp.view, K("best_score")) = PyInt(0)
    ELSE \E n \in 1..Len(top_roles.c) :
            /\ ValidRole(top_roles.c[n])
            /\ \A m \in 1..Len(top_roles.c) :
                  ValidRole(top_roles.c[m])
                  /\ Item(top_roles.c[m], K("score")).n <= Item(top_roles.c[n], K("score")).n
            /\ Item(resp.view, K("best_fit")) = Item(top_roles.c[n], K("role"))
            /\ Item(resp.view, K("best_score")) = Item(top_roles.c[n], K("score"))

\* C20: for any top_roles value that upload_resume can persist, a following
\* dashboard request completes without an unhandled exception and reports
\* as best_fit and best_score the role and the score of an element with the
\* greatest score ('N/A' and 0 when the list is empty).
C20_DashboardAfterUpload ==
    (resp.route = "dashboard" /\ LoggedIn)
        => (resp.status = "200" /\ BestReported)


\* ------------------------------------------------------------------------
\* The stored market analysis
\* ------------------------------------------------------------------------
\* resume uploads and market requests of one student, one after the other,
\* from two browsers
NextMarket ==
    \/ Elsewhere /\ \E up1 \in SeqRoleOutputs, up2 \in SeqRoadmapOutputs :
          upload_resume(TRUE, TRUE, up1, up2)
    \/ Elsewhere /\ \E up \in SeqMarketOutputs : market(up)
    \/ Elsewhere /\ login(TRUE)
    \/ Elsewhere /\ logout
    \/ switch_browser

SpecMarket == InitSeq /\ [][NextMarket]_vars

\* a market request of a logged-in student is handled
MarketStep ==
    /\ LoggedIn
    /\ resp'.route = "market"
    /\ \E up \in SeqMarketOutputs : market(up)

\* the request renders the stored analysis, calls nothing, writes nothing
ServedFromStore ==
    /\ resp'.status = "200"
    /\ resp'.calls = << >>
    /\ resp'.view = PyDict(<< K("analysis") >>, << Field("market_analysis") >>)
    /\ UNCHANGED << student, skills, has_resume >>

\* the stored analysis is an object with at least one key
NonEmptyAnalysis ==
    IsDict(Field("market_analysis")) /\ Field("market_analysis").k # << >>

UploadStep ==
    /\ LoggedIn
    /\ resp'.route = "upload_resume"
    /\ \E up1 \in SeqRoleOutputs, up2 \in SeqRoadmapOutputs :
          upload_resume(TRUE, TRUE, up1, up2)

\* C22: every upload_resume request that reaches the persistence step sets
\* market_analysis to None together with the new top_roles, and the first
\* /market request after it calls the generation service instead of serving
\* the analysis of the previous resume.
C22_UploadResetsAnalysis ==
    [][/\ UploadStep =>
            /\ Field("market_analysis")' = PyNone
            /\ Field("top_roles")' = RolesOrFallback(ParseRoles(resp'.calls[1]))
            /\ has_resume'
       /\ (resp.route = "upload_resume" /\ Field("market_analysis") = PyNone /\ MarketStep)
            => resp'.calls # << >>]_vars

\* after a resume upload a market request has generated an analysis anew
C22_Witness ==
    /\ resp.route = "market"
    /\ resp.calls # << >>
    /\ has_resume
    /\ Field("top_roles") # PyNone
    /\ NonEmptyAnalysis


\* ------------------------------------------------------------------------
\* generate_resume, served by the threads of the server
\* ------------------------------------------------------------------------
\* the thread reads the student document and applies the run-once test
generate_resume_read(t) ==
    /\ pending[t] = NoRequest
    /\ pending' = [pending EXCEPT ![t] = [NoRequest EXCEPT !.op = "generate_resume",
                                                           !.derive = ProfileUnderived]]
    /\ UNCHANGED << student, session, skills, has_resume, today, resp, other_session,
                    readerVars, classifyVars >>

\* the model has answered: the thread saves what it parsed and responds
generate_resume_save(t, up1, up2) ==
    /\ pending[t].op = "generate_resume"
    /\ generate_resume_from(pending[t].derive, TRUE, up1, up2)
    /\ pending' = [pending EXCEPT ![t] = NoRequest]
    /\ UNCHANGED << other_session, readerVars, classifyVars >>

\* what the model returns when asked for the pathway: the object asked
\* for, an object with another domain, an object that holds keys of the
\* student document, prose
SeqPathwayOutputs ==
    { [kind |-> "ok", body |-> json_encode(PathwayObject, "compact")],
      [kind |-> "ok", body |-> json_encode(D1("primaryDomain", S("data")), "compact")],
      [kind |-> "ok", body |-> json_encode(D2("xp", PyInt(9), "roadmap", PyInt(1)), "compact")],
      [kind |-> "ok", body |-> << "w" >>] }

\* the model returns the roles asked for
TwoRolesOutput ==
    [kind |-> "ok",
     body |-> json_encode(PyList(<< Role(K("SDE"), 10), Role(K("ML"), 90) >>), "compact")]

NextPathway ==
    \/ \E t \in Workers : generate_resume_read(t)
    \/ \E t \in Workers, up1 \in SeqPathwayOutputs, up2 \in SeqRoadmapOutputs :
          generate_resume_save(t, up1, up2)
    \/ Elsewhere /\ \E up2 \in SeqRoadmapOutputs :
          upload_resume(TRUE, TRUE, TwoRolesOutput, up2)

SpecPathway == InitSeq /\ [][NextPathway]_vars

PathwayFieldNames ==
    << "course", "primaryDomain", "secondaryDomains", "pathwayType", "pathwayWeights" >>

\* the pathway fields of the student document
StoredPathway == [i \in 1..Len(PathwayFieldNames) |-> Field(PathwayFieldNames[i])]

Derived == Truthy(Field("profileDerived"))

\* C23: the career pathway is derived at most once per student: for any
\* sequence and interleaving of generate_resume requests, once
\* profileDerived has been saved no later request issues the pathway prompt
\* or changes the stored pathway fields, and profileDerived is set only by a
\* derivation whose output parsed successfully.
C23_RunOnce ==
    [][/\ Derived =>
            /\ StoredPathway' = StoredPathway
            /\ \A t \in Workers : pending'[t].derive => pending[t].derive
       /\ (~Derived /\ Derived') =>
            /\ resp'.route = "generate_resume"
            /\ Len(resp'.calls) = 2
            /\ ParsePathway(resp'.calls[1]).found]_vars

\* a generate_resume request reaches its save
SaveStep ==
    /\ resp'.route = "generate_resume"
    /\ \E t \in Workers, up1 \in SeqPathwayOutputs, up2 \in SeqRoadmapOutputs :
          generate_resume_save(t, up1, up2)

\* the fields of the student document that the derivation is not about
OtherFieldNames ==
    { "xp", "password_hash", "email", "top_roles", "market_analysis", "last_bounty_date" }

\* the roadmap after the roadmap step of the request, which follows the
\* derivation and is answered by the last call
RoadmapAfter(calls) ==
    LET rmap == ParseResumeRoadmap(calls[Len(calls)])
    IN IF rmap.found THEN rmap.v ELSE Field("roadmap")

\* C24: the pathway derivation of generate_resume writes only the pathway
\* fields and the system fields (profileDerived, derivedAt,
\* derivationTrigger); whatever keys the model output contains, xp,
\* password_hash, email, top_roles, market_analysis and last_bounty_date
\* keep their values, and roadmap is written by the roadmap step alone.
C24_DerivationFrame ==
    [][SaveStep =>
          /\ \A f \in OtherFieldNames : Field(f)' = Field(f)
          /\ Field("roadmap")' = RoadmapAfter(resp'.calls)]_vars

\* the roadmap after an upload_resume request whose roadmap step, when it
\* ran, was answered by the second call
RoadmapAfterUpload(calls) ==
    LET rmap == ParseRoadmap(calls[Len(calls)])
    IN IF Len(calls) = 2 /\ rmap.found THEN rmap.v ELSE Field("roadmap")

\* C25: the roadmap persisted for a student is always a JSON list:
\* generate_resume updates it only when the parsed output is a list or an
\* object one of whose values is a list (that list is stored), upload_resume
\* only from a bracket-sliced array, and on any other output the roadmap
\* stored before is left unchanged.
C25_RoadmapIsList ==
    [][/\ Field("roadmap")' # Field("roadmap") => IsList(Field("roadmap")')
       /\ SaveStep => Field("roadmap")' = RoadmapAfter(resp'.calls)
       /\ UploadStep => Field("roadmap")' = RoadmapAfterUpload(resp'.calls)]_vars


\* ------------------------------------------------------------------------
\* upload_certificate on the skills table, served by the threads of the
\* server
\* ------------------------------------------------------------------------
\* a table that accepts every row
UniqueConstraintNone(skill_name) == TRUE

\* the table accepts the row: no row of the student holds the same name
UniqueConstraint(skill_name) ==
    \A i \in 1..Len(skills) : skills[i].skill_name # skill_name

\* the thread has the answer about the certificate and, when it is valid,
\* queries the table for the skill
upload_certificate_query(t, up) ==
    LET response_text == ask_llama(up)
        is_valid == CertValid(response_text)
        skill_name == CertSkill(response_text)
        existing_skill == ExistingSkill(skill_name)
    IN
    /\ pending[t] = NoRequest
    /\ LoggedIn
    /\ IF is_valid = 1
       THEN /\ pending' = [pending EXCEPT ![t] =
                              [NoRequest EXCEPT
                                 !.op = "upload_certificate",
                                 !.response_text = response_text,
                                 !.skill_name = skill_name,
                                 !.existing = existing_skill,
                                 !.verified = existing_skill # 0 /\ skills[existing_skill].verified]]
            /\ UNCHANGED resp
       ELSE /\ resp' = Response("upload_certificate", "302", << response_text >>,
                                PyDict(<< K("flash") >>, << S("Could not verify certificate") >>))
            /\ UNCHANGED pending
    /\ UNCHANGED << student, session, skills, has_resume, today, other_session,
                    readerVars, classifyVars >>

\* the thread marks the entry it found, or adds a row, and commits
upload_certificate_commit(t) ==
    LET p == pending[t]
        Flashed(text) ==
            Response("upload_certificate", "302", << p.response_text >>,
                     PyDict(<< K("flash"), K("skill_name") >>, << S(text), PyStr(p.skill_name) >>))
    IN
    /\ p.op = "upload_certificate"
    /\ pending' = [pending EXCEPT ![t] = NoRequest]
    /\ IF p.existing # 0
       THEN /\ skills' = [skills EXCEPT ![p.existing].verified = TRUE]
            /\ resp' = Flashed(IF p.verified THEN "was already verified" ELSE "is now verified")
       ELSE IF UniqueConstraint(p.skill_name)
       THEN /\ skills' = Append(skills, [skill_name |-> p.skill_name, verified |-> TRUE])
            /\ resp' = Flashed("added and verified")
       ELSE /\ resp' = Response("upload_certificate", "302", << p.response_text >>,
                                PyDict(<< K("flash") >>, << S("Error processing certificate.") >>))
            /\ UNCHANGED skills
    /\ UNCHANGED << student, session, has_resume, today, other_session,
                    readerVars, classifyVars >>

\* what the model returns about a certificate: a skill in three spellings,
\* another skill, a certificate that is not valid, no skill, prose
SeqCertOutputs ==
    { [kind |-> "ok", body |-> json_encode(o, "compact")] : o \in CertObjects }
    \cup { [kind |-> "ok", body |-> << "w" >>] }

\* the student has no skill yet, or one
InitCertificate ==
    /\ InitRequestFrom({ SignedUp, Skilled })
    /\ InitReader
    /\ project = NoProject
    /\ classified = NotClassified

NextCertificate ==
    \/ \E t \in Workers, up \in SeqCertOutputs : upload_certificate_query(t, up)
    \/ \E t \in Workers : upload_certificate_commit(t)

SpecCertificate == InitCertificate /\ [][NextCertificate]_vars

\* no two entries of the student are equal ignoring case
NoCaseDuplicates ==
    \A i, j \in 1..Len(skills) :
        i # j => Lower(skills[i].skill_name) # Lower(skills[j].skill_name)

\* a thread commits a certificate that was taken for valid
ValidCommit ==
    \E t \in Workers :
        /\ pending[t].op = "upload_certificate"
        /\ pending'[t] = NoRequest
        /\ CertValid(pending[t].response_text) = 1

\* C26: for any sequence and interleaving of upload_certificate requests a
\* student never has two skill entries whose names are equal ignoring case;
\* a certificate for a skill that is already present adds no entry (it at
\* most marks the existing one verified), and an entry is added or verified
\* only when the extracted valid flag equals 1.
C26_SkillsUnique ==
    /\ []NoCaseDuplicates
    /\ [][/\ skills' # skills => ValidCommit
          /\ Len(skills') >= Len(skills)
          /\ \A i \in 1..Len(skills) :
                /\ skills'[i].skill_name = skills[i].skill_name
                /\ skills[i].verified => skills'[i].verified
          /\ Len(skills') > Len(skills) =>
                /\ Len(skills') = Len(skills) + 1
                /\ skills'[Len(skills')].verified
                /\ \A i \in 1..Len(skills) :
                      Lower(skills[i].skill_name) # Lower(skills'[Len(skills')].skill_name)]_vars

\* two requests for the same skill found no entry; one added it and the
\* commit of the other was refused
C26_Witness ==
    /\ resp.route = "upload_certificate"
    /\ resp.view = PyDict(<< K("flash") >>, << S("Error processing certificate.") >>)
    /\ CertValid(resp.calls[1]) = 1
    /\ ExistingSkill(CertSkill(resp.calls[1])) # 0

====
